---- MODULE Spec2Model ----
(***************************************************************************)
(* A model of the asteroid-learning game: the session state machine of     *)
(* GameScene (score, lives, wave, respawn), the Ship's invincibility       *)
(* timers, the bullet and asteroid collections and the collision passes.   *)
(*                                                                         *)
(* Time is the frame clock in milliseconds.  Phaser's scene clock          *)
(* (scene.time) is modelled as a list of pending timer events, each with   *)
(* the clock value at which it is due; the events that are due fire at the *)
(* start of a frame, before GameScene.update runs.  Phaser's               *)
(* physics.overlap is an input of each frame: the set of asteroids a       *)
(* bullet, or the ship, overlaps.                                          *)
(***************************************************************************)
EXTENDS Integers, Sequences, FiniteSets, TLC

VARIABLES
  time,          \* the frame clock passed to GameScene.update (ms)
  scene,         \* the running scene: "Game", "GameOver" or "Menu"
  score,         \* GameScene.score
  lives,         \* GameScene.lives
  wave,          \* GameScene.wave
  isRespawning,  \* GameScene.isRespawning
  asteroids,     \* GameScene.asteroids
  bullets,       \* GameScene.bullets
  ship,          \* GameScene.ship (the Ship's fields)
  timers,        \* the pending events of scene.time, in insertion order
  nextId,        \* identity of the next TimerEvent object created
  finalScore,    \* the data handed to the GameOver scene: <<score>>, <<>> before
  log,           \* what the last frame did (history)
  phases,        \* the session phases passed through, with the lives on entry (history)
  killed,        \* asteroids destroyed in this session, per size (history)
  shots,         \* bullets fired so far (history)
  calls          \* the direct calls made so far: the clock values of the calls of
                 \* Ship.makeInvincible or onShipHit, the arguments of the calls,
                 \* the entities updated, or the point the loop of
                 \* getSpawnPosition last turned down (history)

vars == <<time, scene, score, lives, wave, isRespawning, asteroids, bullets,
          ship, timers, nextId, finalScore, log, phases, killed, shots, calls>>

----------------------------------------------------------------------------
(* Bounds of the model *)

\* No frame starts at or after MaxTime.
MaxTime == 6500
\* The player fires at most MaxShots bullets.
MaxShots == 2
\* No frame of a wave-clearing session starts at or after MaxClearTime.
MaxClearTime == 15000
\* The elapsed times a frame of a wave-clearing session can be given (ms).
ClearDeltas == {500}
\* A bullet overlaps at most MaxOverlap asteroids in one frame.
MaxOverlap == 2
\* The elapsed times a frame can be given (ms).
Deltas == {500, 1000}

----------------------------------------------------------------------------
(* config.ts *)

GAME == [WIDTH |-> 800, HEIGHT |-> 600, LIVES |-> 3, INITIAL_ASTEROIDS |-> 4]

SHIP == [THRUST |-> 200, MAX_SPEED |-> 400, ROTATION_SPEED |-> 200, SIZE |-> 20,
         INVINCIBILITY |-> 2000, FIRE_RATE |-> 250]

BULLET == [SPEED |-> 500, LIFESPAN |-> 1000, SIZE |-> 2]

ASTEROID ==
  [LARGE  |-> [RADIUS |-> 40, SPEED_MIN |-> 30, SPEED_MAX |-> 80, VERTICES |-> 10],
   MEDIUM |-> [RADIUS |-> 25, SPEED_MIN |-> 50, SPEED_MAX |-> 120, VERTICES |-> 8],
   SMALL  |-> [RADIUS |-> 12, SPEED_MIN |-> 80, SPEED_MAX |-> 180, VERTICES |-> 6]]

SCORE == [LARGE |-> 20, MEDIUM |-> 50, SMALL |-> 100]

\* The delay of the flicker timer of Ship.makeInvincible (ms).
FLICKER_DELAY == 100
\* The delay of the respawn of GameScene.onShipHit (ms).
RESPAWN_DELAY == 1000

----------------------------------------------------------------------------
(* utils/math *)

\* wrapPosition that wraps at the arena's edges, whatever the margin.
wrapPositionNoMargin(pos, margin) ==
  LET x == pos[1]
      y == pos[2]
      wy == IF y <= 0 THEN GAME.HEIGHT + margin
            ELSE IF y >= GAME.HEIGHT THEN -margin ELSE y
      wx == IF x <= 0 THEN GAME.WIDTH + margin
            ELSE IF x >= GAME.WIDTH THEN -margin ELSE x
  IN  <<wx, wy>>

\* wrapPosition that looks at x only when y has not wrapped.
wrapPositionOneAxis(pos, margin) ==
  LET x == pos[1]
      y == pos[2]
      wy == IF y + margin <= 0 THEN GAME.HEIGHT + margin
            ELSE IF y - margin >= GAME.HEIGHT THEN -margin ELSE y
      wx == IF wy # y THEN x
            ELSE IF x + margin <= 0 THEN GAME.WIDTH + margin
            ELSE IF x - margin >= GAME.WIDTH THEN -margin ELSE x
  IN  <<wx, wy>>

\* wrapPosition(x, y, margin), on the pair <<x, y>>.
wrapPosition(pos, margin) ==
  LET x == pos[1]
      y == pos[2]
      wy == IF y + margin <= 0 THEN GAME.HEIGHT + margin
            ELSE IF y - margin >= GAME.HEIGHT THEN -margin ELSE y
      wx == IF x + margin <= 0 THEN GAME.WIDTH + margin
            ELSE IF x - margin >= GAME.WIDTH THEN -margin ELSE x
  IN  <<wx, wy>>

\* pos + vel * dt with dt = delta / 1000, in whole pixels.
Moved(pos, vel, delta) ==
  <<pos[1] + (vel[1] * delta) \div 1000, pos[2] + (vel[2] * delta) \div 1000>>

\* Math.cos and Math.sin of an angle in degrees, at the multiples of 90.
Cos(angleDeg) ==
  CASE angleDeg % 360 = 0 -> 1
    [] angleDeg % 360 = 90 -> 0
    [] angleDeg % 360 = 180 -> -1
    [] angleDeg % 360 = 270 -> 0

Sin(angleDeg) == Cos(angleDeg - 90)

\* velocityFromAngle(angleDeg, speed), as the pair <<x, y>>.
velocityFromAngle(angleDeg, speed) == <<speed * Cos(angleDeg), speed * Sin(angleDeg)>>

Abs(n) == IF n < 0 THEN -n ELSE n

\* dx * dx + dy * dy: the square of Math.hypot(dx, dy).
Mag2Of(dx, dy) == dx * dx + dy * dy

\* Math.random() returns r / RandomScale, for a whole r in 0..RandomScale-1.
RandomScale == 1000

\* randomBetween(min, max), for the value r of Math.random(); in whole units.
randomBetween(min, max, r) == min + (r * (max - min)) \div RandomScale

\* Math.sqrt(s), rounded up to a whole number.
Sqrt(s) == CHOOSE m \in 0..s : m * m >= s /\ (m = 0 \/ (m - 1) * (m - 1) < s)

\* c * max / mag in whole units, rounded towards zero.
Scaled(c, max, mag) ==
  (IF (c < 0) # (max < 0) THEN -1 ELSE 1) * ((Abs(c) * Abs(max)) \div mag)

\* {x: NaN, y: NaN}, which 0 * max / 0 gives for both components: no vector
\* of numbers.
NaNVec == <<>>

\* clampMagnitude without the scaling: the vector is returned as it came.
clampMagnitudeNone(vel, max) == vel

\* clampMagnitude that limits each component on its own.
clampMagnitudePerAxis(vel, max) ==
  [a \in 1..2 |-> IF Abs(vel[a]) > max THEN (IF vel[a] < 0 THEN -max ELSE max) ELSE vel[a]]

\* clampMagnitude(vx, vy, max), on the pair <<vx, vy>>.  mag > max is
\* decided on the squares when max is not negative, and holds for every
\* vector when it is.
clampMagnitude(vel, max) ==
  LET s == vel[1] * vel[1] + vel[2] * vel[2]
      mag == Sqrt(s)
  IN  IF max < 0 \/ s > max * max
        THEN IF mag = 0
               THEN NaNVec
               ELSE <<Scaled(vel[1], max, mag), Scaled(vel[2], max, mag)>>
        ELSE vel

----------------------------------------------------------------------------
(* Asteroid *)

null == "null"

SIZE_CONFIG == [LARGE |-> ASTEROID.LARGE, MEDIUM |-> ASTEROID.MEDIUM, SMALL |-> ASTEROID.SMALL]

AsteroidSize == {"LARGE", "MEDIUM", "SMALL"}

CHILD_SIZE == [LARGE |-> "MEDIUM", MEDIUM |-> "SMALL", SMALL |-> null]

\* The position and velocity of an entity whose kinematics are not followed.
Untracked == <<>>

\* new Asteroid(scene, x, y, size, velocityX, velocityY); pos is <<x, y>> and
\* vel is <<velocityX, velocityY>>.
Asteroid(pos, size, vel) == [size |-> size, pos |-> pos, vel |-> vel]

getChildSize(asteroid) == CHILD_SIZE[asteroid.size]

\* The velocity the Asteroid constructor draws when it is given none, and
\* the velocity splitAsteroid draws for a child of the given size: a random
\* angle and a random speed of the size's range.  draw.a and draw.s are the
\* two values of Math.random().
RandomVelocity(size, draw) ==
  LET angle == randomBetween(0, 360, draw.a)
      speed == randomBetween(SIZE_CONFIG[size].SPEED_MIN, SIZE_CONFIG[size].SPEED_MAX, draw.s)
  IN  velocityFromAngle(angle, speed)

----------------------------------------------------------------------------
(* The state as one record, so that the steps of a handler compose. *)

Game == [time |-> time, scene |-> scene, score |-> score, lives |-> lives,
         wave |-> wave, isRespawning |-> isRespawning, asteroids |-> asteroids,
         bullets |-> bullets, ship |-> ship, timers |-> timers, nextId |-> nextId,
         finalScore |-> finalScore, log |-> log, killed |-> killed]

\* The log of a frame in which nothing has happened yet.
\*   fired            the kinds of the timer events that fired, in order
\*   shot             a bullet was spawned
\*   expired          the number of bullets whose update returned false
\*   passBullets      the number of live bullets when the bullet pass began
\*   kills            per asteroid destroyed: the bullet (its index when the pass
\*                    began), the asteroid's size, how many asteroids the bullet
\*                    overlapped
\*   shipPass         "ran" or "skipped": the ship pass
\*   respawningAtPass, invincibleAtPass   the two flags when the ship pass began
\*   shipOverlaps     how many asteroids overlapped the ship
\*   shipHit          onShipHit was called
\*   liveAtWaveCheck  the number of live asteroids at the wave check
\*   spawned          the number of asteroids spawnWave added
EmptyLog == [fired |-> <<>>, shot |-> FALSE, expired |-> 0, passBullets |-> 0, kills |-> <<>>,
             shipPass |-> "none", respawningAtPass |-> FALSE, invincibleAtPass |-> FALSE,
             shipOverlaps |-> 0, shipHit |-> FALSE, liveAtWaveCheck |-> 0,
             spawned |-> 0]

Note(g, field, value) == [g EXCEPT !.log[field] = value]

\* s without its i-th element: array.splice(i, 1).
Splice(s, i) ==
  IF i > Len(s) THEN s
  ELSE [k \in 1..(Len(s) - 1) |-> IF k < i THEN s[k] ELSE s[k + 1]]

----------------------------------------------------------------------------
(* Phaser.Time.Clock, as the Ship and the GameScene use it *)

\* A TimerEvent reference that was never assigned.
undefined == 0

\* scene.time.addEvent / delayedCall: the new event is due `delay` after now.
\* The identity of the event created is g.nextId.
AddEvent(g, kind, delay) ==
  [g EXCEPT !.timers = Append(@, [id |-> g.nextId, kind |-> kind, due |-> g.time + delay]),
            !.nextId = @ + 1]

\* scene.time.removeEvent(event): a reference to an event that is no longer
\* pending removes nothing.
RemoveEvent(g, id) == [g EXCEPT !.timers = SelectSeq(@, LAMBDA e : e.id # id)]

Pending(g, id) == \E i \in 1..Len(g.timers) : g.timers[i].id = id

EventOf(g, id) == g.timers[CHOOSE i \in 1..Len(g.timers) : g.timers[i].id = id]

----------------------------------------------------------------------------
(* Ship *)

\* The alpha of the ship, in percent.
OPAQUE == 100
FLICKERED == 50

\* Phaser's angle property keeps the angle within [-180, 180).
WrapDegrees(angle) == ((angle + 180) % 360) - 180

\* new Ship(scene, x, y), pos being <<x, y>>; vel is <<velocityX, velocityY>>.
NewShip(pos) ==
  [isInvincible |-> FALSE, lastFireTime |-> 0, flickerTimer |-> undefined,
   invincibilityTimer |-> undefined, visible |-> TRUE, alpha |-> OPAQUE,
   pos |-> pos, vel |-> <<0, 0>>, angle |-> 0]

\* The cursor keys that can be held.
Keys == {"left", "right", "up"}

\* Ship.update with friction: without thrust the velocity is halved.
ShipUpdateDrag(sh, delta, keys) ==
  LET turn == (SHIP.ROTATION_SPEED * delta) \div 1000
      a1 == IF "left" \in keys THEN WrapDegrees(sh.angle - turn) ELSE sh.angle
      a2 == IF "right" \in keys THEN WrapDegrees(a1 + turn) ELSE a1
      thrust == velocityFromAngle(a2, (SHIP.THRUST * delta) \div 1000)
      v == IF "up" \in keys
             THEN clampMagnitude(<<sh.vel[1] + thrust[1], sh.vel[2] + thrust[2]>>,
                                 SHIP.MAX_SPEED)
             ELSE <<sh.vel[1] \div 2, sh.vel[2] \div 2>>
  IN  [sh EXCEPT !.angle = a2, !.vel = v,
                 !.pos = wrapPosition(Moved(sh.pos, v, delta), SHIP.SIZE)]

\* Ship.update(delta, cursors) on the Ship's fields sh; keys are the cursor
\* keys that are down.
ShipUpdate(sh, delta, keys) ==
  LET turn == (SHIP.ROTATION_SPEED * delta) \div 1000
      a1 == IF "left" \in keys THEN WrapDegrees(sh.angle - turn) ELSE sh.angle
      a2 == IF "right" \in keys THEN WrapDegrees(a1 + turn) ELSE a1
      thrust == velocityFromAngle(a2, (SHIP.THRUST * delta) \div 1000)
      v == IF "up" \in keys
             THEN clampMagnitude(<<sh.vel[1] + thrust[1], sh.vel[2] + thrust[2]>>,
                                 SHIP.MAX_SPEED)
             ELSE sh.vel
  IN  [sh EXCEPT !.angle = a2, !.vel = v,
                 !.pos = wrapPosition(Moved(sh.pos, v, delta), SHIP.SIZE)]

\* Ship.canFire that lets every request through.
canFireAlways(g, t) == TRUE

canFire(g, t) == (t - g.ship.lastFireTime) >= SHIP.FIRE_RATE

recordFire(g, t) == [g EXCEPT !.ship.lastFireTime = t]

\* Ship.makeInvincible without the two removeEvent calls.
makeInvincibleStacking(g) ==
  LET g1 == [g EXCEPT !.ship.isInvincible = TRUE]
      g2 == [AddEvent(g1, "flicker", FLICKER_DELAY) EXCEPT !.ship.flickerTimer = g1.nextId]
  IN  [AddEvent(g2, "invincibilityEnd", SHIP.INVINCIBILITY)
         EXCEPT !.ship.invincibilityTimer = g2.nextId]

\* Ship.makeInvincible with a deadline that ends the invincibility at once.
makeInvincibleShort(g) ==
  LET a == IF g.ship.flickerTimer # undefined THEN RemoveEvent(g, g.ship.flickerTimer) ELSE g
      b == IF a.ship.invincibilityTimer # undefined
             THEN RemoveEvent(a, a.ship.invincibilityTimer) ELSE a
      g1 == [b EXCEPT !.ship.isInvincible = TRUE]
      g2 == [AddEvent(g1, "flicker", FLICKER_DELAY) EXCEPT !.ship.flickerTimer = g1.nextId]
  IN  [AddEvent(g2, "invincibilityEnd", SHIP.INVINCIBILITY - FLICKER_DELAY)
         EXCEPT !.ship.invincibilityTimer = g2.nextId]

makeInvincible(g) ==
  LET a == IF g.ship.flickerTimer # undefined THEN RemoveEvent(g, g.ship.flickerTimer) ELSE g
      b == IF a.ship.invincibilityTimer # undefined
             THEN RemoveEvent(a, a.ship.invincibilityTimer) ELSE a
      g1 == [b EXCEPT !.ship.isInvincible = TRUE]
      g2 == [AddEvent(g1, "flicker", FLICKER_DELAY) EXCEPT !.ship.flickerTimer = g1.nextId]
  IN  [AddEvent(g2, "invincibilityEnd", SHIP.INVINCIBILITY)
         EXCEPT !.ship.invincibilityTimer = g2.nextId]

\* The callback of the flicker timer; the timer repeats for ever.
onFlicker(g, id) ==
  LET e == EventOf(g, id)
  IN  [g EXCEPT !.ship.alpha = IF @ = OPAQUE THEN FLICKERED ELSE OPAQUE,
                !.timers = [i \in 1..Len(@) |->
                              IF @[i].id = id THEN [@[i] EXCEPT !.due = e.due + FLICKER_DELAY]
                                              ELSE @[i]]]

\* The callback of the invincibility timer; a delayedCall fires once.
onInvincibilityEnd(g, id) ==
  LET g0 == RemoveEvent(g, id)
      g1 == IF g0.ship.flickerTimer # undefined
              THEN RemoveEvent(g0, g0.ship.flickerTimer) ELSE g0
  IN  [g1 EXCEPT !.ship.alpha = OPAQUE, !.ship.isInvincible = FALSE]

\* Ship.reset that makes the ship invincible where it is, as it moves.
resetInPlace(g, pos) == [makeInvincible(g) EXCEPT !.ship.visible = TRUE]

\* Ship.reset(x, y), pos being <<x, y>>.
reset(g, pos) ==
  LET g1 == [g EXCEPT !.ship.pos = pos, !.ship.vel = <<0, 0>>, !.ship.angle = -90]
  IN  [makeInvincible(g1) EXCEPT !.ship.visible = TRUE]

\* Ship.cleanup()
cleanup(g) ==
  LET a == IF g.ship.flickerTimer # undefined THEN RemoveEvent(g, g.ship.flickerTimer) ELSE g
  IN  IF a.ship.invincibilityTimer # undefined
        THEN RemoveEvent(a, a.ship.invincibilityTimer) ELSE a

----------------------------------------------------------------------------
(* Bullet *)

\* new Bullet(scene, x, y, velocityX, velocityY)
Bullet(pos, vel) == [lifespan |-> BULLET.LIFESPAN, pos |-> pos, vel |-> vel]

\* Bullet.update that moves the bullet before it looks at the lifespan.
BulletUpdateMoveFirst(bullet, delta) ==
  LET aged == [bullet EXCEPT !.lifespan = @ - delta,
                             !.pos = IF @ = Untracked THEN @
                                     ELSE wrapPosition(Moved(@, bullet.vel, delta), BULLET.SIZE)]
  IN  [bullet |-> aged, alive |-> aged.lifespan > 0]

\* Bullet.update(delta): the bullet after the call and the value returned.
\* A bullet whose kinematics are not followed has no position to move.
BulletUpdate(bullet, delta) ==
  LET aged == [bullet EXCEPT !.lifespan = @ - delta]
  IN  IF aged.lifespan <= 0
        THEN [bullet |-> aged, alive |-> FALSE]
        ELSE [bullet |-> IF aged.pos = Untracked THEN aged
                         ELSE [aged EXCEPT !.pos = wrapPosition(Moved(@, aged.vel, delta),
                                                                 BULLET.SIZE)],
              alive |-> TRUE]

----------------------------------------------------------------------------
(* GameScene *)

\* The inputs of one frame:
\*   delta     the elapsed time
\*   keys      the cursor keys that are down
\*   fire      fireKey.isDown
\*   ov        ov[bi]: the indices ai with physics.overlap(bullets[bi], asteroids[ai]),
\*             read against the asteroid list as it is when bullet bi is examined
\*   shipOv    the indices ai with physics.overlap(ship, asteroids[ai])
\*   child     child[size]: the velocities drawn for the two children, of that
\*             size, of a split
\*   spawn     spawn[i]: the position and velocity drawn for the i-th asteroid of a wave

\* GameScene.addScore that awards the points of a large asteroid for every size.
addScoreFlat(g, size) == [g EXCEPT !.score = @ + SCORE.LARGE]

\* GameScene.addScore(size)
addScore(g, size) == [g EXCEPT !.score = @ + SCORE[size]]

RECURSIVE PushAll(_, _)
PushAll(list, more) ==
  IF more = <<>> THEN list ELSE PushAll(Append(list, Head(more)), Tail(more))

\* GameScene.splitAsteroid that spawns a single child.
splitAsteroidOneChild(g, index, child) ==
  LET asteroid == g.asteroids[index]
      childSize == getChildSize(asteroid)
      grown == IF childSize # null
                 THEN Append(g.asteroids, Asteroid(asteroid.pos, childSize, child[childSize][1]))
                 ELSE g.asteroids
  IN  [g EXCEPT !.asteroids = Splice(grown, index),
                !.killed[asteroid.size] = @ + 1]

\* GameScene.splitAsteroid that gives the children of a medium asteroid the
\* velocities drawn from the medium range.
splitAsteroidParentTier(g, index, child) ==
  LET asteroid == g.asteroids[index]
      childSize == getChildSize(asteroid)
      tier == IF asteroid.size = "MEDIUM" THEN "MEDIUM" ELSE childSize
      grown == IF childSize # null
                 THEN PushAll(g.asteroids,
                              [i \in 1..2 |-> Asteroid(asteroid.pos, childSize, child[tier][i])])
                 ELSE g.asteroids
  IN  [g EXCEPT !.asteroids = Splice(grown, index),
                !.killed[asteroid.size] = @ + 1]

\* GameScene.splitAsteroid(asteroid, index)
splitAsteroid(g, index, child) ==
  LET asteroid == g.asteroids[index]
      childSize == getChildSize(asteroid)
      grown == IF childSize # null
                 THEN PushAll(g.asteroids,
                              [i \in 1..2 |-> Asteroid(asteroid.pos, childSize, child[childSize][i])])
                 ELSE g.asteroids
  IN  [g EXCEPT !.asteroids = Splice(grown, index),
                !.killed[asteroid.size] = @ + 1]

\* The body of `if (this.physics.overlap(bullet, asteroid))` in
\* checkBulletAsteroidCollisions, up to the break.
hitAsteroid(g, in, bi, ai) ==
  LET asteroid == g.asteroids[ai]
      g1 == addScore(g, asteroid.size)
      g2 == splitAsteroid(g1, ai, in.child)
      g3 == [g2 EXCEPT !.bullets = Splice(@, bi)]
  IN  Note(g3, "kills",
           Append(g.log.kills,
                  [bullet |-> bi, size |-> asteroid.size,
                   overlaps |-> Cardinality(in.ov[bi] \cap (1..Len(g.asteroids)))]))

\* The inner loop without its break: the bullet goes on to the asteroids below.
RECURSIVE scanAsteroidsNoBreak(_, _, _, _)
scanAsteroidsNoBreak(g, in, bi, ai) ==
  IF ai < 1 THEN g
  ELSE IF ai \in in.ov[bi]
         THEN scanAsteroidsNoBreak(hitAsteroid(g, in, bi, ai), in, bi, ai - 1)
         ELSE scanAsteroidsNoBreak(g, in, bi, ai - 1)

\* The inner loop of checkBulletAsteroidCollisions: asteroids ai, ai-1, .., 1
\* against bullet bi, stopping at the first overlap.
RECURSIVE scanAsteroids(_, _, _, _)
scanAsteroids(g, in, bi, ai) ==
  IF ai < 1 THEN g
  ELSE IF ai \in in.ov[bi]
         THEN hitAsteroid(g, in, bi, ai)
         ELSE scanAsteroids(g, in, bi, ai - 1)

\* The outer loop of checkBulletAsteroidCollisions: bullets bi, bi-1, .., 1.
RECURSIVE scanBullets(_, _, _)
scanBullets(g, in, bi) ==
  IF bi < 1 THEN g
  ELSE scanBullets(scanAsteroids(g, in, bi, Len(g.asteroids)), in, bi - 1)

\* GameScene.checkBulletAsteroidCollisions()
checkBulletAsteroidCollisions(g, in) ==
  scanBullets(Note(g, "passBullets", Len(g.bullets)), in, Len(g.bullets))

\* The callback of the respawn delayedCall of onShipHit.
onRespawn(g, id) ==
  LET g0 == RemoveEvent(g, id)
      g1 == [g0 EXCEPT !.ship.visible = TRUE]
      g2 == reset(g1, <<GAME.WIDTH \div 2, GAME.HEIGHT \div 2>>)
  IN  [g2 EXCEPT !.isRespawning = FALSE]

\* GameScene.onShipHit without the early return at lives <= 0.
onShipHitNoReturn(g) ==
  LET g1 == [g EXCEPT !.lives = @ - 1]
      g2 == IF g1.lives <= 0
              THEN [cleanup(g1) EXCEPT !.scene = "GameOver", !.finalScore = <<g1.score>>]
              ELSE g1
      g3 == [g2 EXCEPT !.ship.visible = FALSE, !.isRespawning = TRUE]
  IN  AddEvent(g3, "respawn", RESPAWN_DELAY)

\* GameScene.onShipHit that ends the session one life early.
onShipHitEarly(g) ==
  LET g1 == [g EXCEPT !.lives = @ - 1]
  IN  IF g1.lives <= 1
        THEN [cleanup(g1) EXCEPT !.scene = "GameOver", !.finalScore = <<g1.score>>]
        ELSE LET g2 == [g1 EXCEPT !.ship.visible = FALSE, !.isRespawning = TRUE]
             IN  AddEvent(g2, "respawn", RESPAWN_DELAY)

\* GameScene.onShipHit that hands no score to the GameOver scene.
onShipHitNoScore(g) ==
  LET g1 == [g EXCEPT !.lives = @ - 1]
  IN  IF g1.lives <= 0
        THEN [cleanup(g1) EXCEPT !.scene = "GameOver", !.finalScore = <<0>>]
        ELSE LET g2 == [g1 EXCEPT !.ship.visible = FALSE, !.isRespawning = TRUE]
             IN  AddEvent(g2, "respawn", RESPAWN_DELAY)

\* GameScene.onShipHit()
onShipHit(g) ==
  LET g1 == [g EXCEPT !.lives = @ - 1]
  IN  IF g1.lives <= 0
        THEN [cleanup(g1) EXCEPT !.scene = "GameOver", !.finalScore = <<g1.score>>]
        ELSE LET g2 == [g1 EXCEPT !.ship.visible = FALSE, !.isRespawning = TRUE]
             IN  AddEvent(g2, "respawn", RESPAWN_DELAY)

\* The log's record of the moment the ship pass begins.
AtShipPass(g, in) ==
  [g EXCEPT !.log.shipOverlaps = Cardinality(in.shipOv \cap (1..Len(g.asteroids))),
            !.log.respawningAtPass = g.isRespawning,
            !.log.invincibleAtPass = g.ship.isInvincible]

\* GameScene.checkShipAsteroidCollisions that tests only the respawning flag.
checkShipAsteroidCollisionsNoInvincibility(g, in) ==
  LET g0 == AtShipPass(g, in)
  IN  IF g.isRespawning
        THEN Note(g0, "shipPass", "skipped")
        ELSE LET g1 == Note(g0, "shipPass", "ran")
             IN  IF \E ai \in 1..Len(g.asteroids) : ai \in in.shipOv
                   THEN onShipHit(Note(g1, "shipHit", TRUE))
                   ELSE g1

\* GameScene.checkShipAsteroidCollisions that tests only the invincibility.
checkShipAsteroidCollisionsNoRespawning(g, in) ==
  LET g0 == AtShipPass(g, in)
  IN  IF g.ship.isInvincible
        THEN Note(g0, "shipPass", "skipped")
        ELSE LET g1 == Note(g0, "shipPass", "ran")
             IN  IF \E ai \in 1..Len(g.asteroids) : ai \in in.shipOv
                   THEN onShipHit(Note(g1, "shipHit", TRUE))
                   ELSE g1

\* GameScene.checkShipAsteroidCollisions that destroys the asteroid the ship hit.
checkShipAsteroidCollisionsRemoving(g, in) ==
  LET g0 == AtShipPass(g, in)
      over == in.shipOv \cap (1..Len(g.asteroids))
  IN  IF g.isRespawning \/ g.ship.isInvincible
        THEN Note(g0, "shipPass", "skipped")
        ELSE LET g1 == Note(g0, "shipPass", "ran")
             IN  IF over # {}
                   THEN LET first == CHOOSE ai \in over : \A other \in over : ai <= other
                        IN  onShipHit(Note([g1 EXCEPT !.asteroids = Splice(@, first)],
                                           "shipHit", TRUE))
                   ELSE g1

\* GameScene.checkShipAsteroidCollisions()
checkShipAsteroidCollisions(g, in) ==
  LET g0 == AtShipPass(g, in)
  IN  IF g.isRespawning \/ g.ship.isInvincible
        THEN Note(g0, "shipPass", "skipped")
        ELSE LET g1 == Note(g0, "shipPass", "ran")
             IN  IF \E ai \in 1..Len(g.asteroids) : ai \in in.shipOv
                   THEN onShipHit(Note(g1, "shipHit", TRUE))
                   ELSE g1

\* const minDist of GameScene.getSpawnPosition.
minDist == 150

\* The point one turn of the loop of getSpawnPosition picks: draw.e is the
\* value of Math.random() that chooses the edge, draw.r the one that chooses
\* the point along it.
EdgePoint(draw) ==
  LET edge == (draw.e * 4) \div RandomScale
  IN  CASE edge = 0 -> <<randomBetween(0, GAME.WIDTH, draw.r), 0>>
        [] edge = 1 -> <<randomBetween(0, GAME.WIDTH, draw.r), GAME.HEIGHT>>
        [] edge = 2 -> <<0, randomBetween(0, GAME.HEIGHT, draw.r)>>
        [] OTHER -> <<GAME.WIDTH, randomBetween(0, GAME.HEIGHT, draw.r)>>

\* The loop's condition that lets no point through.
TooCloseAnywhere(g, point) == TRUE

\* The loop's condition: Math.hypot(x - ship.x, y - ship.y) < minDist.
TooClose(g, point) ==
  Mag2Of(point[1] - g.ship.pos[1], point[2] - g.ship.pos[2]) < minDist * minDist

\* getSpawnPosition that returns the first point it picks.
getSpawnPositionAnywhere(g, stream) ==
  [pos |-> EdgePoint(Head(stream)), rest |-> Tail(stream)]

\* GameScene.getSpawnPosition(), on the stream of the draws its turns take:
\* the point returned and the draws left over.  The loop does not end on a
\* stream none of whose points is far enough.
RECURSIVE getSpawnPosition(_, _)
getSpawnPosition(g, stream) ==
  IF TooClose(g, EdgePoint(Head(stream)))
    THEN getSpawnPosition(g, Tail(stream))
    ELSE [pos |-> EdgePoint(Head(stream)), rest |-> Tail(stream)]

\* The positions getSpawnPosition returns in the count turns of the loop of
\* spawnWave, each call going on in the stream where the last one stopped.
RECURSIVE SpawnPositions(_, _, _)
SpawnPositions(g, stream, count) ==
  IF count = 0 THEN <<>>
  ELSE LET r == getSpawnPosition(g, stream)
       IN  <<r.pos>> \o SpawnPositions(g, r.rest, count - 1)

\* GameScene.spawnWave that spawns one asteroid too few.
spawnWaveShort(g, in) ==
  LET count == GAME.INITIAL_ASTEROIDS + (g.wave - 1) - 1
  IN  Note([g EXCEPT !.asteroids =
              PushAll(@, [i \in 1..count |->
                            Asteroid(in.spawn[i].pos, "LARGE", in.spawn[i].vel)])],
           "spawned", count)

\* GameScene.spawnWave()
spawnWave(g, in) ==
  LET count == GAME.INITIAL_ASTEROIDS + (g.wave - 1)
  IN  Note([g EXCEPT !.asteroids =
              PushAll(@, [i \in 1..count |->
                            Asteroid(in.spawn[i].pos, "LARGE", in.spawn[i].vel)])],
           "spawned", count)

\* GameScene.fireBullet that leaves the ship's velocity out of the bullet's.
fireBulletNoMomentum(g, in) ==
  LET g1 == recordFire(g, g.time)
      vel == velocityFromAngle(g.ship.angle, BULLET.SPEED)
      noseOffset == velocityFromAngle(g.ship.angle, SHIP.SIZE)
      bullet == Bullet(<<g.ship.pos[1] + noseOffset[1], g.ship.pos[2] + noseOffset[2]>>, vel)
  IN  Note([g1 EXCEPT !.bullets = Append(@, bullet)], "shot", TRUE)

\* GameScene.fireBullet(time)
fireBullet(g, in) ==
  LET g1 == recordFire(g, g.time)
      vel == velocityFromAngle(g.ship.angle, BULLET.SPEED)
      noseOffset == velocityFromAngle(g.ship.angle, SHIP.SIZE)
      bullet == Bullet(<<g.ship.pos[1] + noseOffset[1], g.ship.pos[2] + noseOffset[2]>>,
                       <<vel[1] + g.ship.vel[1], vel[2] + g.ship.vel[2]>>)
  IN  Note([g1 EXCEPT !.bullets = Append(@, bullet)], "shot", TRUE)

\* The bullet loop of GameScene.update that leaves the dead bullets in the list.
RECURSIVE updateBulletsKeepDead(_, _, _)
updateBulletsKeepDead(list, delta, i) ==
  IF i < 1 THEN list
  ELSE updateBulletsKeepDead([list EXCEPT ![i] = BulletUpdate(list[i], delta).bullet],
                             delta, i - 1)

\* The bullet loop of GameScene.update: bullets i, i-1, .., 1 are updated and
\* the dead ones spliced out.
RECURSIVE updateBullets(_, _, _)
updateBullets(list, delta, i) ==
  IF i < 1 THEN list
  ELSE LET r == BulletUpdate(list[i], delta)
       IN  IF ~r.alive
             THEN updateBullets(Splice(list, i), delta, i - 1)
             ELSE updateBullets([list EXCEPT ![i] = r.bullet], delta, i - 1)

\* Asteroid.update(delta); an asteroid whose kinematics are not followed has
\* no position to move.
AsteroidUpdate(asteroid, delta) ==
  IF asteroid.pos = Untracked THEN asteroid
  ELSE [asteroid EXCEPT !.pos = wrapPosition(Moved(@, asteroid.vel, delta),
                                             SIZE_CONFIG[asteroid.size].RADIUS)]

\* The end of GameScene.update without the wave check.
waveCheckNone(g, in) == Note(g, "liveAtWaveCheck", Len(g.asteroids))

\* The end of GameScene.update: the wave check, advancing at one asteroid left.
waveCheckEarly(g, in) ==
  LET g1 == Note(g, "liveAtWaveCheck", Len(g.asteroids))
  IN  IF Len(g1.asteroids) <= 1
        THEN spawnWave([g1 EXCEPT !.wave = @ + 1], in)
        ELSE g1

\* The end of GameScene.update: the wave check.
waveCheck(g, in) ==
  LET g1 == Note(g, "liveAtWaveCheck", Len(g.asteroids))
  IN  IF Len(g1.asteroids) = 0
        THEN spawnWave([g1 EXCEPT !.wave = @ + 1], in)
        ELSE g1

\* The start of GameScene.update without the test of the respawning flag.
advanceWhileRespawning(g, in) ==
  LET g0 == [g EXCEPT !.ship = ShipUpdate(@, in.delta, in.keys)]
      g1 == IF in.fire /\ canFire(g0, g0.time) THEN fireBullet(g0, in) ELSE g0
      g2 == [g1 EXCEPT !.bullets = updateBullets(@, in.delta, Len(@))]
      g3 == Note(g2, "expired", Len(g1.bullets) - Len(g2.bullets))
  IN  [g3 EXCEPT !.asteroids = [i \in 1..Len(@) |-> AsteroidUpdate(@[i], in.delta)]]

\* GameScene.update(time, delta) up to the collision passes: the ship and
\* the firing, the bullets, the asteroids.
advance(g, in) ==
  LET g0 == IF ~g.isRespawning
              THEN [g EXCEPT !.ship = ShipUpdate(@, in.delta, in.keys)]
              ELSE g
      g1 == IF ~g.isRespawning
              THEN IF in.fire /\ canFire(g0, g0.time) THEN fireBullet(g0, in) ELSE g0
              ELSE g0
      g2 == [g1 EXCEPT !.bullets = updateBullets(@, in.delta, Len(@))]
      g3 == Note(g2, "expired", Len(g1.bullets) - Len(g2.bullets))
  IN  [g3 EXCEPT !.asteroids = [i \in 1..Len(@) |-> AsteroidUpdate(@[i], in.delta)]]

\* GameScene.update(time, delta) from the collision passes on.
collide(g, in) ==
  waveCheck(checkShipAsteroidCollisions(checkBulletAsteroidCollisions(g, in), in), in)

\* Phaser.Time.Clock.update: the events pending at the start of the frame
\* that are due fire in insertion order; an event removed by an earlier
\* callback of the same frame does not fire.
RECURSIVE fireDue(_, _)
fireDue(g, ids) ==
  IF ids = <<>> THEN g
  ELSE LET id == Head(ids)
       IN  IF Pending(g, id) /\ EventOf(g, id).due <= g.time
             THEN LET kind == EventOf(g, id).kind
                      g1 == Note(g, "fired", Append(g.log.fired, kind))
                      g2 == CASE kind = "flicker" -> onFlicker(g1, id)
                              [] kind = "invincibilityEnd" -> onInvincibilityEnd(g1, id)
                              [] kind = "respawn" -> onRespawn(g1, id)
                  IN  fireDue(g2, Tail(ids))
             ELSE fireDue(g, Tail(ids))

clockUpdate(g) == fireDue(g, [i \in 1..Len(g.timers) |-> g.timers[i].id])

\* GameScene.update(time, delta)
update(g, in) == collide(advance(g, in), in)

\* The GameScene object as constructed, at clock value t: its field
\* initializers.  The ship is assigned by create().
NewGameScene(t) ==
  [time |-> t, scene |-> "Game", score |-> 0, lives |-> GAME.LIVES, wave |-> 1,
   isRespawning |-> FALSE, asteroids |-> <<>>, bullets |-> <<>>,
   ship |-> undefined, timers |-> <<>>, nextId |-> 1, finalScore |-> <<>>,
   log |-> EmptyLog,
   killed |-> [LARGE |-> 0, MEDIUM |-> 0, SMALL |-> 0]]

\* GameScene.create() that leaves the score as the last session left it.
createKeepScore(g, spawn) ==
  LET g1 == [g EXCEPT !.lives = GAME.LIVES, !.wave = 1, !.asteroids = <<>>,
                      !.bullets = <<>>, !.isRespawning = FALSE]
      g2 == [g1 EXCEPT !.ship = [NewShip(<<GAME.WIDTH \div 2, GAME.HEIGHT \div 2>>)
                                   EXCEPT !.angle = WrapDegrees(-90)]]
  IN  spawnWave(g2, [spawn |-> spawn])

\* GameScene.create() on the scene object g, which Phaser keeps from one
\* session to the next.  spawn are the positions and velocities drawn for
\* the first wave.
create(g, spawn) ==
  LET g1 == [g EXCEPT !.score = 0, !.lives = GAME.LIVES, !.wave = 1, !.asteroids = <<>>,
                      !.bullets = <<>>, !.isRespawning = FALSE]
      g2 == [g1 EXCEPT !.ship = [NewShip(<<GAME.WIDTH \div 2, GAME.HEIGHT \div 2>>)
                                   EXCEPT !.angle = WrapDegrees(-90)]]
  IN  spawnWave(g2, [spawn |-> spawn])

----------------------------------------------------------------------------
(* The session: frames of the Game scene *)

\* The phase of the session state machine.
Phase(g) ==
  IF g.scene = "GameOver" THEN "GameOver"
  ELSE IF g.isRespawning THEN "Respawning" ELSE "Playing"

Entered(ph, g) ==
  IF ph[Len(ph)].phase # Phase(g)
    THEN Append(ph, [phase |-> Phase(g), lives |-> g.lives])
    ELSE ph

\* The sets of asteroids one bullet can overlap, among n asteroids.
OvSets(n) ==
  {{}} \cup {(IF i > k THEN i - k ELSE 1)..i : i \in 1..n, k \in 0..(MaxOverlap - 1)}

\* The sets of asteroids the ship can overlap, among n asteroids.
ShipOvSets(n) == {{}, 1..n}

\* In a clearing session every bullet reaches an asteroid and no asteroid
\* reaches the ship.
HitSets(n) == OvSets(n) \ {{}}

NoShipOv(n) == {{}}

\* The overlaps by the mode of the session: "play" (anything overlaps),
\* "clear" (every bullet hits, the ship is never reached), "dodge" (no bullet
\* hits, the ship can be reached), "quiet" (nothing overlaps), "siege" (every
\* bullet hits the newest asteroid, the ship can be reached).
BulletOverlaps(mode, n) ==
  CASE mode = "play" -> OvSets(n)
    [] mode = "clear" -> HitSets(n)
    [] mode = "siege" -> {{n}}
    [] OTHER -> {{}}

ShipOverlaps(mode, n) ==
  CASE mode \in {"play", "dodge", "siege"} -> ShipOvSets(n)
    [] OTHER -> NoShipOv(n)

Commit(g) ==
  /\ time' = g.time
  /\ scene' = g.scene
  /\ score' = g.score
  /\ lives' = g.lives
  /\ wave' = g.wave
  /\ isRespawning' = g.isRespawning
  /\ asteroids' = g.asteroids
  /\ bullets' = g.bullets
  /\ ship' = g.ship
  /\ timers' = g.timers
  /\ nextId' = g.nextId
  /\ finalScore' = g.finalScore
  /\ log' = g.log
  /\ killed' = g.killed

\* The variables hold the new session g.
Start(g) ==
  /\ time = g.time
  /\ scene = g.scene
  /\ score = g.score
  /\ lives = g.lives
  /\ wave = g.wave
  /\ isRespawning = g.isRespawning
  /\ asteroids = g.asteroids
  /\ bullets = g.bullets
  /\ ship = g.ship
  /\ timers = g.timers
  /\ nextId = g.nextId
  /\ finalScore = g.finalScore
  /\ log = g.log
  /\ killed = g.killed
  /\ phases = <<[phase |-> Phase(g), lives |-> g.lives]>>
  /\ shots = 0
  /\ calls = <<>>

\* The draws of a wave of n asteroids whose kinematics are not followed.
UntrackedSpawn(n) == [i \in 1..n |-> [pos |-> Untracked, vel |-> Untracked]]

Init == Start(create(NewGameScene(0), UntrackedSpawn(GAME.INITIAL_ASTEROIDS)))

\* The player holds no cursor key: the ship stays where create() or reset()
\* put it.
NoKeys == {{}}

\* One frame of the Game scene: the scene clock fires what is due, then
\* GameScene.update runs.  The frame's inputs are drawn from the sets given:
\* the elapsed time from deltas, the fire key from fires, the cursor keys
\* from keysets, the asteroids a bullet overlaps and the asteroids the ship
\* overlaps from the sets of the session's mode.  With record, the clock
\* value of a call of onShipHit is appended to calls.
FrameRecording(deltas, fires, keysets, mode, record) ==
  /\ scene = "Game"
  /\ \E delta \in deltas, fire \in fires, keys \in keysets :
       LET g0 == clockUpdate([Game EXCEPT !.time = time + delta, !.log = EmptyLog])
           base == [delta |-> delta, fire |-> fire, keys |-> keys,
                    child |-> [s \in {"MEDIUM", "SMALL"} |-> <<Untracked, Untracked>>],
                    spawn |-> UntrackedSpawn(GAME.INITIAL_ASTEROIDS + wave)]
           g1 == advance(g0, base)
       IN  \E ov \in [1..Len(g1.bullets) -> BulletOverlaps(mode, Len(g1.asteroids))] :
             LET g2 == checkBulletAsteroidCollisions(g1, [ov |-> ov] @@ base)
             IN  \E shipOv \in ShipOverlaps(mode, Len(g2.asteroids)) :
                   LET in == [ov |-> ov, shipOv |-> shipOv] @@ base
                       g3 == waveCheck(checkShipAsteroidCollisions(g2, in), in)
                   IN  /\ Commit(g3)
                       /\ phases' = Entered(Entered(phases, g0), g3)
                       /\ shots' = IF g3.log.shot THEN shots + 1 ELSE shots
                       /\ calls' = IF record /\ g3.log.shipHit
                                     THEN Append(calls, g3.time) ELSE calls

FrameOf(deltas, fires, keysets, mode) ==
  FrameRecording(deltas, fires, keysets, mode, FALSE)

\* A frame of a session in which the player fires at most MaxShots bullets.
Frame ==
  /\ time < MaxTime
  /\ FrameOf(Deltas, IF shots < MaxShots THEN BOOLEAN ELSE {FALSE}, NoKeys, "play")

Next == Frame

Spec == Init /\ [][Next]_vars

\* A frame of a session in which the fire key is held, every bullet reaches
\* an asteroid and no asteroid reaches the ship: the player clears the wave.
ClearFrame ==
  /\ time < MaxClearTime
  /\ FrameOf(ClearDeltas, {TRUE}, NoKeys, "clear")

ClearNext == ClearFrame

ClearSpec == Init /\ [][ClearNext]_vars

\* No frame of a burst starts at or after MaxBurstTime.
MaxBurstTime == 1000
\* The elapsed times a frame of a burst can be given (ms).
BurstDeltas == {250}

\* A frame of the opening of a session, at the shortest frame time that lets
\* every frame fire: several bullets are live in one collision pass, and the
\* ship can be hit.
BurstFrame ==
  /\ time < MaxBurstTime
  /\ FrameOf(BurstDeltas, BOOLEAN, NoKeys, "play")

BurstNext == BurstFrame

BurstSpec == Init /\ [][BurstNext]_vars

\* No frame of a firing session starts at or after MaxFireTime.
MaxFireTime == 1000
\* The elapsed times a frame of a firing session can be given (ms), most of
\* them shorter than the fire-rate interval.
FireDeltas == {100, 150, 250}

\* A frame of a session in which the fire key is held and nothing overlaps.
FireFrame ==
  /\ time < MaxFireTime
  /\ FrameOf(FireDeltas, {TRUE}, NoKeys, "quiet")

FireNext == FireFrame

FireSpec == Init /\ [][FireNext]_vars

----------------------------------------------------------------------------
(* The Ship's invincibility under direct calls *)

\* The clock does not advance past MaxShipTime here.
MaxShipTime == 4500
\* Ship.makeInvincible is called at most MaxCalls times.
MaxCalls == 2
\* The elapsed times between two updates of the scene clock (ms).
ShipDeltas == {300, 700}

Keep(g) ==
  /\ Commit(g)
  /\ phases' = phases
  /\ shots' = shots

\* A caller invokes ship.makeInvincible() at the current clock value.
ShipMakeInvincible ==
  /\ Len(calls) < MaxCalls
  /\ Keep(makeInvincible(Game))
  /\ calls' = Append(calls, time)

\* The scene clock advances by delta and fires the events that are due.
ShipTick ==
  \E delta \in ShipDeltas :
    /\ time + delta <= MaxShipTime
    /\ Keep(clockUpdate([Game EXCEPT !.time = time + delta, !.log = EmptyLog]))
    /\ calls' = calls

ShipNext == ShipMakeInvincible \/ ShipTick

ShipSpec == Init /\ [][ShipNext]_vars

----------------------------------------------------------------------------
(* Splitting, with the asteroids' positions followed *)

\* At most MaxSplits asteroids are split.
MaxSplits == 3

\* Points of the arena's edges, each at least 150 from the arena's centre.
SpawnPoints == {<<0, 0>>, <<800, 450>>}

\* velocityFromAngle(angle, speed) at the angles 0 and 90 and the least speed
\* of the size.
Velocities(size) ==
  LET c == SIZE_CONFIG[size]
  IN  {<<c.SPEED_MIN, 0>>, <<0, c.SPEED_MIN>>}

\* The state after GameScene.create() with the wave's asteroids at drawn
\* edge positions.
SplitInit ==
  \E spawn \in [1..GAME.INITIAL_ASTEROIDS ->
                  [pos : SpawnPoints, vel : {<<ASTEROID.LARGE.SPEED_MIN, 0>>}]] :
    Start(create(NewGameScene(0), spawn))

\* A bullet has hit asteroids[index]: the asteroid is split.
Split ==
  /\ killed.LARGE + killed.MEDIUM + killed.SMALL < MaxSplits
  /\ \E index \in 1..Len(asteroids) :
       \E cm \in Velocities("MEDIUM") \X Velocities("MEDIUM"),
          cs \in Velocities("SMALL") \X Velocities("SMALL") :
         /\ Keep(splitAsteroid(Game, index, [MEDIUM |-> cm, SMALL |-> cs]))
         /\ calls' = calls

SplitNext == Split

SplitSpec == SplitInit /\ [][SplitNext]_vars

----------------------------------------------------------------------------
(* A session with the ship, the bullets and the asteroids followed *)

\* No frame of this session starts at or after MaxDodgeTime.
MaxDodgeTime == 2250
\* The elapsed time of a frame (ms): a quarter turn at SHIP.ROTATION_SPEED.
DodgeDeltas == {450}
\* The cursor keys the player holds in a frame.
DodgeKeys == SUBSET Keys

\* The first wave: four large asteroids on the arena's edges, at least 150
\* from the ship, each with a velocity within the speeds of its size.
DodgeWave ==
  << [pos |-> <<0, 0>>, vel |-> <<30, 0>>],
     [pos |-> <<800, 450>>, vel |-> <<0, 40>>],
     [pos |-> <<0, 600>>, vel |-> <<-60, 0>>],
     [pos |-> <<700, 0>>, vel |-> <<0, -80>>] >>

DodgeInit == Start(create(NewGameScene(0), DodgeWave))

\* A frame of a session in which the fire key is held, no bullet reaches an
\* asteroid and the asteroids can reach the ship.
DodgeFrame ==
  /\ time < MaxDodgeTime
  /\ FrameOf(DodgeDeltas, {TRUE}, DodgeKeys, "dodge")

DodgeNext == DodgeFrame

DodgeSpec == DodgeInit /\ [][DodgeNext]_vars

----------------------------------------------------------------------------
(* Asteroids with their velocities drawn, split and drifting *)

\* At most MaxRockSplits asteroids are split.
MaxRockSplits == 2
\* The clock does not advance past MaxRockTime here.
MaxRockTime == 900
\* The elapsed time of an update of the asteroids (ms).
RockDeltas == {450}

\* The pairs of values Math.random() returns for an angle and a speed: the
\* angle 0 at the least speed of the range, the angle 270 just under the
\* greatest.
RockDraws == {[a |-> 0, s |-> 0], [a |-> 750, s |-> 999]}

\* The state after GameScene.create(), the wave's asteroids at the edge
\* positions of DodgeWave with the velocities their constructor draws.
RockInit ==
  \E draws \in [1..GAME.INITIAL_ASTEROIDS -> RockDraws] :
    Start(create(NewGameScene(0),
                 [i \in 1..GAME.INITIAL_ASTEROIDS |->
                    [pos |-> DodgeWave[i].pos, vel |-> RandomVelocity("LARGE", draws[i])]]))

\* A bullet has hit asteroids[index]: the asteroid is split, its children
\* with the velocities splitAsteroid draws.
RockSplit ==
  /\ killed.LARGE + killed.MEDIUM + killed.SMALL < MaxRockSplits
  /\ \E index \in 1..Len(asteroids), d1 \in RockDraws, d2 \in RockDraws :
       /\ Keep(splitAsteroid(Game, index,
                             [sz \in {"MEDIUM", "SMALL"} |->
                                <<RandomVelocity(sz, d1), RandomVelocity(sz, d2)>>]))
       /\ calls' = calls

\* The asteroid loop of GameScene.update: every asteroid is updated.
RockDrift ==
  \E delta \in RockDeltas :
    /\ time + delta <= MaxRockTime
    /\ Keep([Game EXCEPT !.time = time + delta,
                         !.asteroids = [i \in 1..Len(@) |-> AsteroidUpdate(@[i], delta)]])
    /\ calls' = calls

RockNext == RockSplit \/ RockDrift

RockSpec == RockInit /\ [][RockNext]_vars

----------------------------------------------------------------------------
(* One session after another: Game, GameOver, Menu, Game *)

\* No frame of these sessions starts at or after MaxSessionsTime.
MaxSessionsTime == 12000
\* The elapsed time of a frame (ms): SHIP.FIRE_RATE, so every frame can fire.
SessionsDeltas == {250}

\* From SiegeTime on the bullets miss.
SiegeTime == 11000

\* A frame of a session in which the fire key is held and the asteroids can
\* reach the ship; every bullet hits an asteroid until SiegeTime, and none
\* does afterwards, so that a session can end with bullets in flight.
SessionsFrame ==
  /\ time < MaxSessionsTime
  /\ FrameOf(SessionsDeltas, {TRUE}, NoKeys, IF time < SiegeTime THEN "siege" ELSE "dodge")

\* GameOverScene: ENTER returns to the menu.
ToMenu ==
  /\ scene = "GameOver"
  /\ scene' = "Menu"
  /\ UNCHANGED <<time, score, lives, wave, isRespawning, asteroids, bullets, ship,
                 timers, nextId, finalScore, log, phases, killed, shots, calls>>

\* MenuScene: ENTER starts the Game scene, whose create() runs on the scene
\* object the last session left.
StartGame ==
  /\ scene = "Menu"
  /\ LET g == create([Game EXCEPT !.scene = "Game", !.log = EmptyLog,
                                  !.killed = [LARGE |-> 0, MEDIUM |-> 0, SMALL |-> 0]],
                     UntrackedSpawn(GAME.INITIAL_ASTEROIDS))
     IN  /\ Commit(g)
         /\ phases' = <<[phase |-> Phase(g), lives |-> g.lives]>>
         /\ shots' = 0
         /\ calls' = calls

SessionsNext == SessionsFrame \/ ToMenu \/ StartGame

SessionsSpec == Init /\ [][SessionsNext]_vars

----------------------------------------------------------------------------
(* Frames whose elapsed time can be negative *)

\* At most MaxSkewFrames frames run.
MaxSkewFrames == 5
\* The elapsed times the frame clock hands to update (ms), one of them
\* negative.
SkewDeltas == {450, -450}
\* The cursor keys the player holds in a frame.
SkewKeys == {{}, {"up"}}

\* GameScene.update(time, delta) with the fire key held and nothing
\* overlapping, at a clock value that stays non-negative.
SkewFrame ==
  /\ scene = "Game"
  /\ Len(calls) < MaxSkewFrames
  /\ \E delta \in SkewDeltas, keys \in SkewKeys :
       LET g0 == clockUpdate([Game EXCEPT !.time = time + delta, !.log = EmptyLog])
           in == [delta |-> delta, fire |-> TRUE, keys |-> keys,
                  ov |-> [bi \in 1..(Len(bullets) + 1) |-> {}], shipOv |-> {},
                  child |-> [sz \in {"MEDIUM", "SMALL"} |-> <<Untracked, Untracked>>],
                  spawn |-> UntrackedSpawn(GAME.INITIAL_ASTEROIDS + wave)]
       IN  /\ time + delta >= 0
           /\ Keep(update(g0, in))
           /\ calls' = Append(calls, delta)

SkewNext == SkewFrame

SkewSpec == DodgeInit /\ [][SkewNext]_vars

----------------------------------------------------------------------------
(* utils/math under direct calls *)

\* The margins wrapPosition is called with: none, and the sizes of the
\* ship and of a large asteroid.
Margins == {0, SHIP.SIZE, ASTEROID.LARGE.RADIUS}

\* The coordinates wrapPosition is called with, along an axis of the given
\* length: inside, and at and next to every threshold of every margin.
Coords(bound) ==
  {bound \div 2, -10}
    \cup {c + d : c \in {-m : m \in Margins} \cup {bound + m : m \in Margins},
                  d \in {-1, 0, 1}}

\* The vectors clampMagnitude is called with.
ClampVectors ==
  {<<0, 0>>, <<3, 4>>, <<6, 8>>, <<30, 40>>, <<-30, -40>>, <<100, 0>>, <<0, -100>>,
   <<300, 400>>, <<-600, 800>>, <<600, -800>>}

\* The limits clampMagnitude is called with.
ClampMaxes == {-100, -5, 5, 10, 50, 100, 500}

\* A caller invokes wrapPosition(x, y, margin).
WrapCall ==
  \E x \in Coords(GAME.WIDTH), y \in Coords(GAME.HEIGHT), margin \in Margins :
    /\ calls = <<>>
    /\ calls' = <<[fn |-> "wrapPosition", vec |-> <<x, y>>, arg |-> margin,
                   out |-> wrapPosition(<<x, y>>, margin)]>>
    /\ UNCHANGED <<time, scene, score, lives, wave, isRespawning, asteroids, bullets,
                   ship, timers, nextId, finalScore, log, phases, killed, shots>>

\* A caller invokes clampMagnitude(vx, vy, max).
ClampCall ==
  \E vel \in ClampVectors, max \in ClampMaxes :
    /\ calls = <<>>
    /\ calls' = <<[fn |-> "clampMagnitude", vec |-> vel, arg |-> max,
                   out |-> clampMagnitude(vel, max)]>>
    /\ UNCHANGED <<time, scene, score, lives, wave, isRespawning, asteroids, bullets,
                   ship, timers, nextId, finalScore, log, phases, killed, shots>>

MathNext == WrapCall \/ ClampCall

MathSpec == Init /\ [][MathNext]_vars

----------------------------------------------------------------------------
(* The Ship under the cursor keys *)

\* The clock does not advance past MaxPilotTime here.
MaxPilotTime == 2700
\* The elapsed times Ship.update can be given (ms): a quarter turn and a half
\* turn at SHIP.ROTATION_SPEED.
PilotDeltas == {450, 900}

\* ship.update(delta, cursors) is called with any combination of keys down.
PilotUpdate ==
  \E delta \in PilotDeltas, keys \in SUBSET Keys :
    /\ time + delta <= MaxPilotTime
    /\ Keep([Game EXCEPT !.time = time + delta, !.log = EmptyLog,
                         !.ship = ShipUpdate(@, delta, keys)])
    /\ calls' = calls

PilotNext == PilotUpdate

PilotSpec == Init /\ [][PilotNext]_vars

----------------------------------------------------------------------------
(* The Ship under the cursor keys, with the calls recorded *)

\* Ship.update is called at most MaxCoastCalls times.
MaxCoastCalls == 3

\* ship.update(delta, cursors) is called with any combination of keys down;
\* the arguments of the call are recorded.
CoastUpdate ==
  /\ Len(calls) < MaxCoastCalls
  /\ \E delta \in PilotDeltas, keys \in SUBSET Keys :
       /\ Keep([Game EXCEPT !.time = time + delta, !.log = EmptyLog,
                            !.ship = ShipUpdate(@, delta, keys)])
       /\ calls' = Append(calls, [delta |-> delta, keys |-> keys])

CoastNext == CoastUpdate

CoastSpec == Init /\ [][CoastNext]_vars

----------------------------------------------------------------------------
(* Waves spawned around a ship that has moved *)

\* The clock does not advance past MaxWaveTime here.
MaxWaveTime == 900
\* One call of spawnWave takes at most StreamLen turns of the loop of
\* getSpawnPosition.
StreamLen == 5

\* The draws of one turn of the loop: the middle of the top edge, the
\* top-left corner, the middle of the bottom edge and the middle of the
\* right edge.
EdgeDraws ==
  {[e |-> 0, r |-> 500], [e |-> 0, r |-> 0], [e |-> 250, r |-> 500], [e |-> 750, r |-> 500]}

\* ship.update(delta, cursors) is called with any combination of keys down,
\* before any wave is spawned.
WaveFly ==
  /\ calls = <<>>
  /\ \E delta \in PilotDeltas, keys \in SUBSET Keys :
       /\ time + delta <= MaxWaveTime
       /\ Keep([Game EXCEPT !.time = time + delta, !.log = EmptyLog,
                            !.ship = ShipUpdate(@, delta, keys)])
       /\ calls' = calls

\* A caller invokes spawnWave(), once; stream are the draws of the turns of
\* getSpawnPosition, enough of them far enough from the ship for the loops
\* to end.
WaveCall ==
  /\ calls = <<>>
  /\ \E stream \in [1..StreamLen -> EdgeDraws] :
       LET count == GAME.INITIAL_ASTEROIDS + (wave - 1)
           far == {k \in 1..StreamLen : ~TooClose(Game, EdgePoint(stream[k]))}
           at == SpawnPositions(Game, stream, count)
           spawn == [i \in 1..count |->
                       [pos |-> at[i], vel |-> RandomVelocity("LARGE", [a |-> 0, s |-> 0])]]
       IN  /\ Cardinality(far) >= count
           /\ Keep(spawnWave([Game EXCEPT !.log = EmptyLog], [spawn |-> spawn]))
           /\ calls' = Append(calls, stream)

WaveNext == WaveFly \/ WaveCall

WaveSpec == Init /\ [][WaveNext]_vars

----------------------------------------------------------------------------
(* A session of firing that outlasts the first bullets *)

\* No frame of the session starts at or after MaxVolleyTime.
MaxVolleyTime == 1500

\* A frame of a session in which the fire key is held and nothing overlaps,
\* going on until the first bullets have expired.
VolleyFrame ==
  /\ time < MaxVolleyTime
  /\ FrameOf(FireDeltas, {TRUE}, NoKeys, "quiet")

VolleyNext == VolleyFrame

VolleySpec == Init /\ [][VolleyNext]_vars

----------------------------------------------------------------------------
(* A session with the clock values of the ship's hits recorded *)

\* No frame of the session starts at or after MaxHitTime.
MaxHitTime == 7000
\* The elapsed times a frame of the session can be given (ms).
HitDeltas == {300, 1000}

\* A frame of a session in which no bullet is fired and any asteroid can
\* reach the ship.
HitFrame ==
  /\ time < MaxHitTime
  /\ FrameRecording(HitDeltas, {FALSE}, NoKeys, "dodge", TRUE)

HitNext == HitFrame

HitSpec == Init /\ [][HitNext]_vars

----------------------------------------------------------------------------
(* The entities constructed anywhere, under direct calls of update *)

\* update is called at most MaxPlaceCalls times.
MaxPlaceCalls == 3
\* The elapsed time an update is given (ms).
PlaceDeltas == {450}
\* The cursor keys held during an update of the ship.
PlaceKeys == {{}, {"up"}, {"right", "up"}}
\* The positions the constructors are given: the centre of the arena, a
\* point just outside a corner, and points far outside on one axis or both.
Places == {<<400, 300>>, <<-3, -3>>, <<-500, 300>>, <<400, -700>>, <<1300, 900>>}
\* The velocities the asteroid and the bullet are constructed with.
PlaceMotions ==
  {[rock |-> <<0, 0>>, bullet |-> <<0, 0>>], [rock |-> <<-80, 30>>, bullet |-> <<500, -400>>]}

\* A ship, an asteroid and a bullet as their constructors leave them, at a
\* position of Places.
PlaceInit ==
  \E p \in Places, size \in AsteroidSize, motion \in PlaceMotions :
    Start([create(NewGameScene(0), UntrackedSpawn(GAME.INITIAL_ASTEROIDS))
             EXCEPT !.ship = NewShip(p),
                    !.asteroids = <<Asteroid(p, size, motion.rock)>>,
                    !.bullets = <<Bullet(p, motion.bullet)>>])

\* A caller invokes ship.update(delta, cursors).
PlaceShip ==
  /\ Len(calls) < MaxPlaceCalls
  /\ \E delta \in PlaceDeltas, keys \in PlaceKeys :
       Keep([Game EXCEPT !.ship = ShipUpdate(@, delta, keys)])
  /\ calls' = Append(calls, "ship")

\* A caller invokes asteroid.update(delta).
PlaceAsteroid ==
  /\ Len(calls) < MaxPlaceCalls
  /\ \E delta \in PlaceDeltas :
       Keep([Game EXCEPT !.asteroids = <<AsteroidUpdate(@[1], delta)>>])
  /\ calls' = Append(calls, "asteroid")

\* A caller invokes bullet.update(delta) and drops the bullet when the call
\* returns false.
PlaceBullet ==
  /\ Len(calls) < MaxPlaceCalls
  /\ bullets # <<>>
  /\ \E delta \in PlaceDeltas :
       LET r == BulletUpdate(bullets[1], delta)
       IN  Keep([Game EXCEPT !.bullets = IF r.alive THEN <<r.bullet>> ELSE <<>>])
  /\ calls' = Append(calls, "bullet")

PlaceNext == PlaceShip \/ PlaceAsteroid \/ PlaceBullet

PlaceSpec == PlaceInit /\ [][PlaceNext]_vars

----------------------------------------------------------------------------
(* spawnWave turn by turn of the loop of getSpawnPosition *)

\* The ship's positions when spawnWave is called are the points of its box
\* (the arena and SHIP.SIZE around it) on a grid of GridStep, and the
\* edges of the arena and of the box.
GridStep == 50

ShipSpots ==
  {<<x, y>> : x \in {-SHIP.SIZE, GAME.WIDTH + SHIP.SIZE}
                       \cup {k * GridStep : k \in 0..(GAME.WIDTH \div GridStep)},
              y \in {-SHIP.SIZE, GAME.HEIGHT + SHIP.SIZE}
                       \cup {k * GridStep : k \in 0..(GAME.HEIGHT \div GridStep)}}

\* The draws of one turn of the loop: the top-left corner, the middle of
\* the top edge and the bottom end of the right edge.
LoopDraws == {[e |-> 0, r |-> 0], [e |-> 0, r |-> 500], [e |-> 750, r |-> 999]}

\* A caller has invoked spawnWave() with the list of asteroids empty and
\* the ship at one of ShipSpots; no asteroid has been placed yet.
LoopInit ==
  \E p \in ShipSpots :
    Start([create(NewGameScene(0), UntrackedSpawn(GAME.INITIAL_ASTEROIDS))
             EXCEPT !.ship.pos = p, !.asteroids = <<>>])

\* One turn of the do-while loop of getSpawnPosition, called from the loop of
\* spawnWave: the point of the draw is picked; if it is too close to the
\* ship the loop goes round again (calls holds the point last turned down),
\* if not spawnWave places the asteroid there.
LoopTurn(draw) ==
  /\ Len(asteroids) < GAME.INITIAL_ASTEROIDS + (wave - 1)
  /\ LET point == EdgePoint(draw)
     IN  IF TooClose(Game, point)
           THEN /\ Keep(Game)
                /\ calls' = <<point>>
           ELSE /\ Keep([Game EXCEPT !.asteroids =
                           Append(@, Asteroid(point, "LARGE",
                                              RandomVelocity("LARGE", [a |-> 0, s |-> 0])))])
                /\ calls' = calls

LoopNext == \E draw \in LoopDraws : LoopTurn(draw)

LoopSpec == LoopInit /\ [][LoopNext]_vars

\* The random choice is fair: a draw that stays possible is made in the end.
LoopFairSpec == LoopSpec /\ \A draw \in LoopDraws : WF_vars(LoopTurn(draw))

----------------------------------------------------------------------------
(* One bullet, with its position followed *)

\* Positions at which a bullet is constructed: off the nose of the ship at
\* the arena's centre, and near the right, the top-left and the bottom edge.
BulletStarts == {<<400, 280>>, <<795, 300>>, <<5, 5>>, <<400, 598>>}

\* Velocities with which a bullet is constructed: BULLET.SPEED along an axis,
\* alone or added to the velocity of a ship at SHIP.MAX_SPEED.
BulletVelocities == {<<500, 0>>, <<0, -500>>, <<-500, 0>>, <<0, 900>>}

\* The elapsed times Bullet.update can be given (ms).
BulletDeltas == {100, 300}

\* A session in which one bullet has just been constructed.
BulletInit ==
  \E pos \in BulletStarts, vel \in BulletVelocities :
    Start([create(NewGameScene(0), UntrackedSpawn(GAME.INITIAL_ASTEROIDS))
             EXCEPT !.bullets = <<Bullet(pos, vel)>>])

\* bullet.update(delta) is called on the bullet, which is alive; the bullet
\* stays in view after the call that returns false.
BulletStep ==
  /\ bullets[1].lifespan > 0
  /\ \E delta \in BulletDeltas :
       LET r == BulletUpdate(bullets[1], delta)
       IN  /\ Keep([Game EXCEPT !.time = time + delta,
                                !.bullets = <<r.bullet>>,
                                !.log = [EmptyLog EXCEPT !.expired = IF r.alive THEN 0 ELSE 1]])
           /\ calls' = calls

BulletNext == BulletStep

BulletSpec == BulletInit /\ [][BulletNext]_vars

----------------------------------------------------------------------------
(* Properties *)

PendingOf(kind) == {i \in 1..Len(timers) : timers[i].kind = kind}

\* The points of the score table, as the specification states them.
Points(size) ==
  CASE size = "LARGE" -> 20
    [] size = "MEDIUM" -> 50
    [] size = "SMALL" -> 100

\* The points of the asteroids a collision pass destroyed.
RECURSIVE KillPoints(_)
KillPoints(kills) ==
  IF kills = <<>> THEN 0 ELSE Points(Head(kills).size) + KillPoints(Tail(kills))

\* The change of the number of live asteroids the destroyed asteroids make:
\* a large or medium parent leaves two children, a small one nothing.
RECURSIVE KillGrowth(_)
KillGrowth(kills) ==
  IF kills = <<>> THEN 0
  ELSE (IF Head(kills).size = "SMALL" THEN -1 ELSE 1) + KillGrowth(Tail(kills))

\* The session's phases when three lives are lost one after another.
ThreeHits ==
  << [phase |-> "Playing", lives |-> 3],
     [phase |-> "Respawning", lives |-> 2],
     [phase |-> "Playing", lives |-> 2],
     [phase |-> "Respawning", lives |-> 1],
     [phase |-> "Playing", lives |-> 1],
     [phase |-> "GameOver", lives |-> 0] >>

\* C1: starting with 3 lives, the phases a session goes through are a prefix
\* of Playing(3), Respawning(2), Playing(2), Respawning(1), Playing(1),
\* GameOver(0): every ship hit leaves Playing, the first two for Respawning
\* with a respawn scheduled, the third for GameOver with lives 0 and no
\* respawn scheduled.
C1_ThreeHitsToGameOver ==
  /\ Len(phases) <= Len(ThreeHits)
  /\ \A i \in 1..Len(phases) : phases[i] = ThreeHits[i]
  /\ phases[Len(phases)] = [phase |-> Phase(Game), lives |-> lives]
  /\ (scene = "Game" /\ isRespawning) => Cardinality(PendingOf("respawn")) = 1
  /\ (scene = "Game" /\ ~isRespawning) => PendingOf("respawn") = {}
  /\ scene = "GameOver" =>
       /\ phases = ThreeHits
       /\ lives = 0
       /\ log.shipHit
       /\ PendingOf("respawn") = {}
       /\ ~isRespawning

\* The third hit has just ended the session.
C1_Witness ==
  /\ scene = "GameOver"
  /\ Len(phases) = 6
  /\ log.shipHit
  /\ lives = 0

\* C2: lives start at GAME.LIVES, are never negative, and change only by a
\* decrement of exactly 1, made by the ship-asteroid pass of a frame in which
\* the ship was neither invincible nor respawning when the pass began.
C2_Lives ==
  /\ lives = GAME.LIVES
  /\ [](lives >= 0)
  /\ [][lives' # lives =>
          /\ lives' = lives - 1
          /\ log'.shipPass = "ran"
          /\ log'.shipHit
          /\ ~log'.invincibleAtPass
          /\ ~log'.respawningAtPass]_vars

\* A life has just been lost, and it was the second one.
C2_Witness ==
  /\ log.shipHit
  /\ log.shipPass = "ran"
  /\ lives = GAME.LIVES - 2

\* C3: the score starts at 0, is never negative, never decreases, and the
\* change a frame makes to it is the sum of the score-table values (20, 50,
\* 100) of the asteroids its bullet-asteroid pass destroyed: no destroyed
\* asteroid, no change.
C3_Score ==
  /\ score = 0
  /\ [](score >= 0)
  /\ [][/\ score' >= score
        /\ score' - score = KillPoints(log'.kills)]_vars

\* One asteroid of every size has been destroyed, the last one a small one.
C3_Witness ==
  /\ killed.LARGE >= 1
  /\ killed.MEDIUM >= 1
  /\ killed.SMALL >= 1
  /\ log.kills # <<>>
  /\ log.kills[1].size = "SMALL"
  /\ score >= 170

\* The asteroids of list from index from on.
From(list, from) == [k \in 1..(Len(list) - from + 1) |-> list[from + k - 1]]

\* C4: a split removes the parent from the live set; a large parent adds
\* exactly two medium children and a medium parent exactly two small ones,
\* each at the parent's exact position; a small parent adds nothing.
C4_Split ==
  [][\E index \in 1..Len(asteroids) :
       LET parent == asteroids[index]
           rest == Splice(asteroids, index)
           added == From(asteroids', Len(rest) + 1)
       IN  /\ Len(asteroids') >= Len(rest)
           /\ \A k \in 1..Len(rest) : asteroids'[k] = rest[k]
           /\ parent.size = "SMALL" => added = <<>>
           /\ parent.size \in {"LARGE", "MEDIUM"} =>
                /\ Len(added) = 2
                /\ \A k \in 1..2 :
                     /\ added[k].size = (IF parent.size = "LARGE" THEN "MEDIUM" ELSE "SMALL")
                     /\ added[k].pos = parent.pos]_vars

\* A large, a medium and a small asteroid have been split, away from the
\* arena's origin.
C4_Witness ==
  /\ killed.LARGE = 1
  /\ killed.MEDIUM = 1
  /\ killed.SMALL = 1
  /\ \E i \in 1..Len(asteroids) :
       asteroids[i].size = "SMALL" /\ asteroids[i].pos = <<800, 450>>

\* C5: in one collision pass a bullet destroys at most one asteroid, even when
\* it overlaps several: the destroyed asteroids have distinct bullets, every
\* bullet that destroyed one is removed, and the asteroids and the score
\* change by what those asteroids alone account for.
C5_OneAsteroidPerBullet ==
  [][LET kills == log'.kills
     IN  /\ Len(kills) <= log'.passBullets
         /\ \A i, j \in 1..Len(kills) : kills[i].bullet = kills[j].bullet => i = j
         /\ Len(bullets') = log'.passBullets - Len(kills)
         /\ Len(asteroids') = Len(asteroids) + KillGrowth(kills)
         /\ killed'.LARGE + killed'.MEDIUM + killed'.SMALL
              = killed.LARGE + killed.MEDIUM + killed.SMALL + Len(kills)
         /\ score' - score = KillPoints(kills)]_vars

\* Two bullets were live in the pass; one overlapped two asteroids and
\* destroyed one, the other destroyed nothing.
C5_Witness ==
  /\ log.passBullets = 2
  /\ Len(log.kills) = 1
  /\ log.kills[1].overlaps = 2
  /\ Len(bullets) = 1

\* C6: the wave starts at 1 and changes only by an increment of exactly 1,
\* made by the wave check of a frame whose two collision passes left no live
\* asteroid.
C6_Wave ==
  /\ wave = 1
  /\ [][wave' # wave =>
          /\ wave' = wave + 1
          /\ log'.liveAtWaveCheck = 0
          /\ Len(asteroids) + KillGrowth(log'.kills) = 0
          /\ log'.shipPass # "none"]_vars

\* The wave check has just advanced the session to wave 2.
C6_Witness ==
  /\ wave = 2
  /\ log.liveAtWaveCheck = 0
  /\ log.spawned > 0

\* C7: a wave w that is spawned consists of INITIAL_ASTEROIDS + (w - 1) large
\* asteroids; the session is in wave 1 until the INITIAL_ASTEROIDS large
\* asteroids and all their descendants (7 asteroids per large one) are
\* destroyed, and the frame that destroys the last of them advances once, to
\* wave 2 with INITIAL_ASTEROIDS + 1 large asteroids.
C7_WaveSize ==
  LET total == killed.LARGE + killed.MEDIUM + killed.SMALL
  IN  /\ log.spawned > 0 =>
           /\ log.spawned = GAME.INITIAL_ASTEROIDS + (wave - 1)
           /\ Len(asteroids) = log.spawned
           /\ \A i \in 1..Len(asteroids) : asteroids[i].size = "LARGE"
      /\ wave = 1 <=> total < 7 * GAME.INITIAL_ASTEROIDS
      /\ (wave = 2 /\ log.spawned > 0) =>
           /\ killed = [LARGE |-> GAME.INITIAL_ASTEROIDS,
                        MEDIUM |-> 2 * GAME.INITIAL_ASTEROIDS,
                        SMALL |-> 4 * GAME.INITIAL_ASTEROIDS]
           /\ Len(asteroids) = GAME.INITIAL_ASTEROIDS + 1
      /\ total <= 7 * GAME.INITIAL_ASTEROIDS => wave <= 2

\* Wave 1 has just been cleared and wave 2 spawned.
C7_Witness ==
  /\ wave = 2
  /\ log.spawned = GAME.INITIAL_ASTEROIDS + 1
  /\ killed.SMALL = 4 * GAME.INITIAL_ASTEROIDS

\* C8: a frame whose ship-asteroid pass begins while the ship is respawning or
\* invincible skips the pass: no hit is registered and no life is lost,
\* however many asteroids overlap the ship.
C8_PassSkipped ==
  [][(log'.respawningAtPass \/ log'.invincibleAtPass) =>
       /\ log'.shipPass = "skipped"
       /\ ~log'.shipHit
       /\ lives' = lives
       /\ scene' = "Game"]_vars

\* Every asteroid overlapped the invincible ship, there were several, and the
\* ship had already lost a life.
C8_Witness ==
  /\ log.invincibleAtPass
  /\ log.shipPass = "skipped"
  /\ log.shipOverlaps >= 2
  /\ lives < GAME.LIVES

\* The clock value of the latest call of makeInvincible().
LastCall == calls[Len(calls)]

\* C9: after makeInvincible() at T, isInvincible is true at every clock value
\* before T + SHIP.INVINCIBILITY and false, with no further call, at every
\* clock value from T + SHIP.INVINCIBILITY on.
C9_InvincibilityWindow ==
  calls # <<>> =>
    /\ time < LastCall + SHIP.INVINCIBILITY => ship.isInvincible
    /\ time >= LastCall + SHIP.INVINCIBILITY => ~ship.isInvincible

\* The invincibility of a single call has run out.
C9_Witness ==
  /\ Len(calls) = 1
  /\ time >= LastCall + SHIP.INVINCIBILITY
  /\ ~ship.isInvincible
  /\ PendingOf("invincibilityEnd") = {}

\* C10: a call of makeInvincible() at T2 discards the deadline of an earlier
\* call: isInvincible stays true until T2 + SHIP.INVINCIBILITY, and at most
\* one invincibility deadline and one flicker timer are pending, those of the
\* latest call.
C10_Restart ==
  /\ Cardinality(PendingOf("invincibilityEnd")) <= 1
  /\ Cardinality(PendingOf("flicker")) <= 1
  /\ \A i \in PendingOf("invincibilityEnd") :
       /\ timers[i].id = ship.invincibilityTimer
       /\ timers[i].due = LastCall + SHIP.INVINCIBILITY
  /\ \A i \in PendingOf("flicker") : timers[i].id = ship.flickerTimer
  /\ (Len(calls) >= 2 /\ time < LastCall + SHIP.INVINCIBILITY) =>
       /\ ship.isInvincible
       /\ Cardinality(PendingOf("invincibilityEnd")) = 1

\* The deadline of the first call has passed while the second call's
\* invincibility lasts.
C10_Witness ==
  /\ Len(calls) = 2
  /\ calls[1] < calls[2]
  /\ calls[2] < calls[1] + SHIP.INVINCIBILITY
  /\ time >= calls[1] + SHIP.INVINCIBILITY
  /\ time < calls[2] + SHIP.INVINCIBILITY
  /\ ship.isInvincible

\* C11: with the fire key held, a frame spawns a bullet exactly when
\* now - lastFireTime >= SHIP.FIRE_RATE; a spawn records now as lastFireTime
\* and adds one bullet, a refused request changes neither; so a request less
\* than the interval after a spawn spawns nothing, and every spawn is at
\* least SHIP.FIRE_RATE after the spawn before it, whose clock value
\* lastFireTime holds.
C11_FireRate ==
  /\ [](ship.lastFireTime <= time /\ (shots = 0 <=> ship.lastFireTime = 0))
  /\ [][LET gate == time' - ship.lastFireTime >= SHIP.FIRE_RATE
        IN  /\ log'.shot <=> gate
            /\ log'.shot => ship'.lastFireTime = time' /\ shots' = shots + 1
            /\ ~log'.shot => ship'.lastFireTime = ship.lastFireTime /\ shots' = shots
            /\ Len(bullets') =
                 Len(bullets) - log'.expired + (IF log'.shot THEN 1 ELSE 0)]_vars

\* A request made less than the interval after a spawn has spawned nothing.
C11_Witness ==
  /\ shots >= 1
  /\ ~log.shot
  /\ time > ship.lastFireTime
  /\ time - ship.lastFireTime < SHIP.FIRE_RATE
  /\ Len(bullets) >= 1

\* C12: Bullet.update(delta) subtracts delta from the lifespan; when the
\* result is <= 0 it returns false and the position is as it was; otherwise
\* the position is the old one plus velocity * delta / 1000, wrapped with
\* margin BULLET.SIZE, and it returns true.  The velocity never changes.
C12_BulletUpdate ==
  [][LET b == bullets[1]
         after == bullets'[1]
         delta == time' - time
         remaining == b.lifespan - delta
     IN  /\ after.lifespan = remaining
         /\ after.vel = b.vel
         /\ remaining <= 0 => log'.expired = 1 /\ after.pos = b.pos
         /\ remaining > 0 =>
              /\ log'.expired = 0
              /\ after.pos = wrapPosition(<<b.pos[1] + (b.vel[1] * delta) \div 1000,
                                            b.pos[2] + (b.vel[2] * delta) \div 1000>>,
                                          BULLET.SIZE)]_vars

\* A bullet that had moved has expired, its lifespan having crossed zero.
C12_Witness ==
  /\ log.expired = 1
  /\ bullets[1].lifespan < 0
  /\ bullets[1].pos \notin BulletStarts

\* C13: every update lowers a bullet's lifespan by the frame's delta, which
\* is positive; the bullets whose lifespan reaches 0 or less are removed
\* before the collision pass of that frame, so every bullet of the live set
\* has a positive lifespan, the pass sees the surviving bullets only, and
\* only those destroy asteroids.
C13_Expiry ==
  /\ [](\A i \in 1..Len(bullets) :
          bullets[i].lifespan > 0 /\ bullets[i].lifespan < BULLET.LIFESPAN)
  /\ [][LET delta == time' - time
            aged == {i \in 1..Len(bullets) : bullets[i].lifespan - delta > 0}
            fresh == IF log'.shot /\ BULLET.LIFESPAN - delta > 0 THEN 1 ELSE 0
            spawn == IF log'.shot THEN 1 ELSE 0
        IN  /\ delta > 0
            /\ log'.expired = (Len(bullets) - Cardinality(aged)) + (spawn - fresh)
            /\ log'.passBullets = Cardinality(aged) + fresh
            /\ \A k \in 1..Len(log'.kills) : log'.kills[k].bullet \in 1..log'.passBullets
            /\ \A j \in 1..Len(bullets') :
                 bullets'[j].lifespan \in
                   {bullets[i].lifespan - delta : i \in aged} \cup {BULLET.LIFESPAN - delta}]_vars

\* A bullet of an earlier frame has expired and been removed, while the
\* bullet fired in this frame went on into the collision pass.
C13_Witness ==
  /\ log.expired = 1
  /\ log.shot
  /\ log.passBullets = 1
  /\ shots = 2

\* C17: after any sequence of Ship.update calls with any keys held, the
\* magnitude of the ship's velocity is at most SHIP.MAX_SPEED.
C17_MaxSpeed ==
  ship.vel[1] * ship.vel[1] + ship.vel[2] * ship.vel[2] <= SHIP.MAX_SPEED * SHIP.MAX_SPEED

\* The ship has thrust along both axes and its velocity has been scaled down.
C17_Witness ==
  /\ ship.vel[1] # 0
  /\ ship.vel[2] # 0
  /\ ship.vel[1] % 90 # 0
  /\ ship.vel[1] * ship.vel[1] + ship.vel[2] * ship.vel[2] > 390 * 390

\* The kinematic fields of a ship.
Kinematics(sh) == <<sh.pos, sh.vel, sh.angle>>

\* C14: the respawn fires when its delay has elapsed, in state Respawning;
\* it clears the respawning flag and leaves the ship at the arena centre
\* (400, 300), velocity 0, angle -90, visible and invincible; the session
\* is Playing again, so that what the frame leaves is that ship advanced by
\* the frame's own Ship.update.
C14_Respawn ==
  [][LET fires == \E i \in PendingOf("respawn") : timers[i].due <= time'
     IN  /\ (isRespawning /\ ~isRespawning') <=> fires
         /\ fires =>
              /\ isRespawning
              /\ log'.fired = <<"respawn">>
              /\ scene' = "Game"
              /\ ~isRespawning'
              /\ ship'.visible
              /\ ship'.isInvincible
              /\ \E i \in 1..Len(timers') :
                   /\ timers'[i].kind = "invincibilityEnd"
                   /\ timers'[i].due = time' + SHIP.INVINCIBILITY
              /\ \E keys \in SUBSET Keys :
                   Kinematics(ship') =
                     Kinematics(ShipUpdate([ship EXCEPT !.pos = <<400, 300>>,
                                                        !.vel = <<0, 0>>,
                                                        !.angle = -90],
                                           time' - time, keys))]_vars

\* The ship has just respawned; with no key held it rests at the centre,
\* facing up.
C14_Witness ==
  /\ log.fired = <<"respawn">>
  /\ ~isRespawning
  /\ lives = GAME.LIVES - 1
  /\ ship.pos = <<400, 300>>
  /\ ship.vel = <<0, 0>>
  /\ ship.angle = -90
  /\ ship.visible
  /\ ship.isInvincible

\* x and y advanced by velocity * delta / 1000 and wrapped with the margin.
Advanced(pos, vel, delta, margin) ==
  wrapPosition(<<pos[1] + (vel[1] * delta) \div 1000, pos[2] + (vel[2] * delta) \div 1000>>,
               margin)

\* C19: a frame in which the ship is hit, and no bullet destroys anything,
\* leaves every asteroid live, with its size and its velocity, at the
\* position its own update gave it: the ship pass removes nothing, and the
\* wave check finds them all.
C19_HitKeepsAsteroids ==
  [][(log'.shipHit /\ log'.kills = <<>>) =>
       /\ log'.shipOverlaps >= 1
       /\ Len(asteroids') = Len(asteroids)
       /\ log'.liveAtWaveCheck = Len(asteroids)
       /\ log'.spawned = 0
       /\ \A i \in 1..Len(asteroids) :
            /\ asteroids'[i].size = asteroids[i].size
            /\ asteroids'[i].vel = asteroids[i].vel
            /\ asteroids'[i].pos = Advanced(asteroids[i].pos, asteroids[i].vel,
                                            time' - time, SIZE_CONFIG[asteroids[i].size].RADIUS)]_vars

\* The ship has been hit while every asteroid overlapped it; the four
\* asteroids are live, each with its velocity.
C19_Witness ==
  /\ log.shipHit
  /\ log.shipOverlaps = 4
  /\ Len(asteroids) = 4
  /\ asteroids[1].vel = <<30, 0>>
  /\ asteroids[4].vel = <<0, -80>>
  /\ asteroids[1].pos # <<0, 0>>

\* C20: a frame that runs with the respawning flag set leaves the ship's
\* position, velocity and angle as they were and spawns no bullet, whatever
\* keys are held and although the fire key is held; the bullets and the
\* asteroids are advanced as in any frame.
C20_RespawningFrame ==
  [][(isRespawning /\ isRespawning') =>
       LET delta == time' - time
           aged == {i \in 1..Len(bullets) : bullets[i].lifespan - delta > 0}
       IN  /\ Kinematics(ship') = Kinematics(ship)
           /\ ~log'.shot
           /\ ship'.lastFireTime = ship.lastFireTime
           /\ shots' = shots
           /\ Len(bullets') = Cardinality(aged)
           /\ \A i \in aged : \E j \in 1..Len(bullets') :
                /\ bullets'[j].lifespan = bullets[i].lifespan - delta
                /\ bullets'[j].pos = Advanced(bullets[i].pos, bullets[i].vel, delta, BULLET.SIZE)
           /\ Len(asteroids') = Len(asteroids)
           /\ \A i \in 1..Len(asteroids) :
                asteroids'[i].pos = Advanced(asteroids[i].pos, asteroids[i].vel, delta,
                                            SIZE_CONFIG[asteroids[i].size].RADIUS)]_vars

\* A frame has run while respawning, with the fire-rate gate open: the ship
\* lies where it was hit, away from the centre and turned, and a bullet
\* fired before the hit has gone on.
C20_Witness ==
  /\ isRespawning
  /\ ~log.shipHit
  /\ ~log.shot
  /\ time - ship.lastFireTime >= SHIP.FIRE_RATE
  /\ ship.pos # <<400, 300>>
  /\ ship.angle # -90
  /\ Len(bullets) = 1
  /\ bullets[1].lifespan = 100

\* The session is in Respawning: the flag is set, the ship is hidden and the
\* respawn delay, started at the given moment, is pending.
InRespawning(flag, sh, evs, now) ==
  /\ flag
  /\ ~sh.visible
  /\ \E i \in 1..Len(evs) : evs[i].kind = "respawn" /\ evs[i].due = now + RESPAWN_DELAY

\* C18, as the code has it: a hit of the ship takes one life, and the session
\* moves to Respawning (ship hidden, respawn delay started, still in the game)
\* exactly when at least one life remains after the decrement; with none left
\* it moves to GameOver and does not respawn.
C18_HitRespawns ==
  [][log'.shipHit =>
       /\ ~isRespawning
       /\ lives' = lives - 1
       /\ (lives' >= 1) <=> InRespawning(isRespawning', ship', timers', time')
       /\ (lives' >= 1) <=> (scene' = "Game")
       /\ (lives' = 0) <=> (scene' = "GameOver")
       /\ (lives' = 0) =>
            ~isRespawning' /\ \A i \in 1..Len(timers') : timers'[i].kind # "respawn"]_vars

\* The second hit of a session: one life remains and the session is in
\* Respawning.
C18_Witness ==
  /\ log.shipHit
  /\ lives = 1
  /\ scene = "Game"
  /\ InRespawning(isRespawning, ship, timers, time)

\* C18 as stated: a hit moves the session to Respawning exactly when more
\* than one life remains after the decrement.
C18_Original ==
  [][log'.shipHit =>
       (InRespawning(isRespawning', ship', timers', time') <=> lives' > 1)]_vars

\* C15: the session enters GameOver only by the ship hit that takes the last
\* life; the ship then has no invincibility or flicker deadline pending, the
\* score handed to the GameOver scene is the session score of that moment,
\* and once in GameOver no frame of the session runs: score, lives and wave
\* stay as they were until a new session starts.
C15_GameOver ==
  /\ [](scene = "GameOver" =>
          /\ lives = 0
          /\ finalScore = <<score>>
          /\ ~ship.isInvincible
          /\ PendingOf("invincibilityEnd") = {}
          /\ PendingOf("flicker") = {})
  /\ [][(scene # "GameOver" /\ scene' = "GameOver") =>
          /\ scene = "Game"
          /\ log'.shipHit
          /\ lives = 1
          /\ lives' = 0
          /\ finalScore' = <<score'>>]_vars
  /\ [][(scene \in {"GameOver", "Menu"} /\ scene' # "Game") =>
          /\ scene' \in {"GameOver", "Menu"}
          /\ score' = score
          /\ lives' = lives
          /\ wave' = wave
          /\ finalScore' = finalScore]_vars

\* A session has ended in its second wave with bullets in flight; its score
\* was handed to the GameOver scene, and the player has gone on to the menu.
C15_Witness ==
  /\ scene = "Menu"
  /\ wave = 2
  /\ Len(bullets) >= 1
  /\ lives = 0
  /\ score > 0
  /\ finalScore = <<score>>
  /\ log.shipHit

\* C16: the start of a session from the menu, whatever the last session left
\* in the scene object, gives score 0, GAME.LIVES lives, wave 1, the
\* respawning flag cleared, no bullet, and exactly INITIAL_ASTEROIDS
\* asteroids, all large.
C16_NewSession ==
  [][(scene = "Menu" /\ scene' = "Game") =>
       /\ score' = 0
       /\ lives' = GAME.LIVES
       /\ wave' = 1
       /\ ~isRespawning'
       /\ bullets' = <<>>
       /\ Len(asteroids') = GAME.INITIAL_ASTEROIDS
       /\ \A i \in 1..Len(asteroids') : asteroids'[i].size = "LARGE"]_vars

\* A session has started after one that had cleared its first wave (its
\* final score is at least that of a whole wave): nothing has run yet in
\* the new session.
C16_Witness ==
  /\ scene = "Game"
  /\ Len(finalScore) = 1
  /\ finalScore[1] >= GAME.INITIAL_ASTEROIDS * (SCORE.LARGE + 2 * SCORE.MEDIUM + 4 * SCORE.SMALL)
  /\ score = 0
  /\ lives = GAME.LIVES
  /\ wave = 1
  /\ ~log.shot
  /\ ~log.shipHit
  /\ log.kills = <<>>

\* C21: a frame in which the fire key is held while the ship is invincible
\* spawns no bullet.
C21_Original ==
  [][(log'.invincibleAtPass /\ ~log'.respawningAtPass) => ~log'.shot]_vars

\* The step from p to q is not against the velocity v on either axis; a
\* step of more than half the arena is a wrap.
NotBackwards(p, q, v) ==
  \A a \in 1..2 :
    \/ (q[a] - p[a]) * v[a] >= 0
    \/ Abs(q[a] - p[a]) > GAME.HEIGHT \div 2

\* C22: a frame given a negative elapsed time increases no bullet's
\* remaining lifespan and moves neither the ship, nor a bullet, nor an
\* asteroid backwards along its velocity.
C22_Original ==
  [][time' < time =>
       /\ \A i \in 1..Len(bullets) :
            i <= Len(bullets') =>
              /\ bullets'[i].lifespan <= bullets[i].lifespan
              /\ NotBackwards(bullets[i].pos, bullets'[i].pos, bullets[i].vel)
       /\ NotBackwards(ship.pos, ship'.pos, ship'.vel)
       /\ \A i \in 1..Len(asteroids) :
            i <= Len(asteroids') =>
              NotBackwards(asteroids[i].pos, asteroids'[i].pos, asteroids[i].vel)]_vars

\* The latest direct call of the named function, if it is the latest call.
Called(fn) == calls # <<>> /\ calls[1].fn = fn

\* C23: wrapPosition returns the point it is given whenever
\* -margin < x < WIDTH + margin and -margin < y < HEIGHT + margin, also
\* when the point itself is off the screen by less than the margin.
C23_WrapIdentity ==
  Called("wrapPosition") =>
    LET c == calls[1]
    IN  (/\ -c.arg < c.vec[1] /\ c.vec[1] < GAME.WIDTH + c.arg
         /\ -c.arg < c.vec[2] /\ c.vec[2] < GAME.HEIGHT + c.arg)
          => c.out = c.vec

\* The point (-10, -10) with margin 20, partially off the screen, has come
\* back as it was.
C23_Witness ==
  /\ Called("wrapPosition")
  /\ calls[1].vec = <<-10, -10>>
  /\ calls[1].arg = SHIP.SIZE
  /\ calls[1].out = <<-10, -10>>

\* One axis of wrapPosition: the coordinate c against the bound.
WrappedAxis(c, bound, margin) ==
  IF c + margin <= 0 THEN bound + margin
  ELSE IF c - margin >= bound THEN -margin
  ELSE c

\* C24: each axis wraps on its own: a coordinate with c + margin <= 0 comes
\* back as bound + margin, one with c - margin >= bound as -margin, any
\* other as it was, whatever the other coordinate is; a point out on both
\* axes is wrapped on both.
C24_WrapAxes ==
  Called("wrapPosition") =>
    LET c == calls[1]
    IN  /\ c.out[1] = WrappedAxis(c.vec[1], GAME.WIDTH, c.arg)
        /\ c.out[2] = WrappedAxis(c.vec[2], GAME.HEIGHT, c.arg)

\* The point (-20, 620) with margin 20, out through the bottom-left corner,
\* has come back as (820, -20).
C24_Witness ==
  /\ Called("wrapPosition")
  /\ calls[1].vec = <<-20, 620>>
  /\ calls[1].arg = SHIP.SIZE
  /\ calls[1].out = <<820, -20>>

\* The square of a vector's magnitude.
Mag2(v) == Mag2Of(v[1], v[2])

\* C25: with a positive max, clampMagnitude returns a vector of magnitude
\* at most max, the magnitude max itself included, as it was; any other
\* comes back with magnitude max, with the signs of its components and with
\* their ratio.
C25_Clamp ==
  (Called("clampMagnitude") /\ calls[1].arg > 0) =>
    LET c == calls[1]
    IN  /\ Mag2(c.vec) <= c.arg * c.arg => c.out = c.vec
        /\ Mag2(c.vec) > c.arg * c.arg =>
             /\ Mag2(c.out) = c.arg * c.arg
             /\ \A a \in 1..2 : (c.vec[a] > 0 <=> c.out[a] > 0) /\ (c.vec[a] < 0 <=> c.out[a] < 0)
             /\ c.vec[1] * c.out[2] = c.vec[2] * c.out[1]

\* The vector (-600, 800) has been clamped to 500 and has come back as
\* (-300, 400).
C25_Witness ==
  /\ Called("clampMagnitude")
  /\ calls[1].vec = <<-600, 800>>
  /\ calls[1].arg = 500
  /\ calls[1].out = <<-300, 400>>

\* C26: clampMagnitude(0, 0, max) returns the zero vector for every max
\* other than 0.
C26_Original ==
  (Called("clampMagnitude") /\ calls[1].vec = <<0, 0>> /\ calls[1].arg # 0) =>
    calls[1].out = <<0, 0>>

\* C27: a call of Ship.update without the thrust key leaves the velocity as
\* it was, whatever rotation keys are held, and moves the ship by that
\* velocity over the elapsed time (wrapped at the ship's size).
C27_NoDrag ==
  [][LET c == calls'[Len(calls')]
     IN  (Len(calls') > Len(calls) /\ "up" \notin c.keys) =>
           /\ ship'.vel = ship.vel
           /\ ship'.pos = wrapPosition(Moved(ship.pos, ship.vel, c.delta), SHIP.SIZE)
           /\ (c.keys = {"left"} \/ c.keys = {"right"}) => ship'.angle # ship.angle]_vars

\* After a thrust of 450 ms upwards the ship has been turned for 450 ms
\* with the left key alone: it has kept its velocity and has gone on.
C27_Witness ==
  /\ Len(calls) = 2
  /\ calls[1] = [delta |-> 450, keys |-> {"up"}]
  /\ calls[2] = [delta |-> 450, keys |-> {"left"}]
  /\ ship.vel = <<0, -90>>
  /\ ship.pos = <<400, 218>>
  /\ ship.angle = -180

\* The two lists hold asteroids of the same sizes and velocities, in order.
SameRocks(l1, l2) ==
  /\ Len(l1) = Len(l2)
  /\ \A k \in 1..Len(l1) : l1[k].size = l2[k].size /\ l1[k].vel = l2[k].vel

\* C28: every asteroid, spawned by a wave or by a split, has a speed within
\* the [SPEED_MIN, SPEED_MAX] of its own size; an update changes no size and
\* no velocity, and a split changes those of no asteroid but the one it
\* removes.
C28_AsteroidSpeed ==
  /\ [](\A i \in 1..Len(asteroids) :
          LET c == SIZE_CONFIG[asteroids[i].size]
          IN  /\ Mag2(asteroids[i].vel) >= c.SPEED_MIN * c.SPEED_MIN
              /\ Mag2(asteroids[i].vel) <= c.SPEED_MAX * c.SPEED_MAX)
  /\ [][\/ SameRocks(asteroids, asteroids')
         \/ \E index \in 1..Len(asteroids) :
              LET rest == Splice(asteroids, index)
              IN  /\ time' = time
                  /\ Len(asteroids') >= Len(rest)
                  /\ SameRocks(rest, SubSeq(asteroids', 1, Len(rest)))]_vars

\* A large and then a medium asteroid have been split and the asteroids
\* have drifted: a small asteroid at the least speed of its range and one
\* just under the greatest are live, away from where they were created.
C28_Witness ==
  /\ time = MaxRockTime
  /\ killed.LARGE = 1
  /\ killed.MEDIUM = 1
  /\ \E i, j \in 1..Len(asteroids) :
       /\ asteroids[i].size = "SMALL"
       /\ asteroids[i].vel = <<ASTEROID.SMALL.SPEED_MIN, 0>>
       /\ asteroids[j].size = "SMALL"
       /\ asteroids[j].vel = <<0, -179>>
       /\ asteroids[i].pos # asteroids[j].pos

\* C29: the bullet spawned in a frame has the velocity BULLET.SPEED along
\* the ship's facing plus the ship's velocity, and starts SHIP.SIZE along
\* the facing from the ship's position, the ship being as that frame's
\* Ship.update left it; the frame's bullet loop then ages and moves it once.
\* No frame changes the velocity of a bullet that stays live.
C29_BulletLaunch ==
  /\ [][log'.shot =>
          LET delta == time' - time
              b == bullets'[Len(bullets')]
              facing == velocityFromAngle(ship'.angle, BULLET.SPEED)
              nose == velocityFromAngle(ship'.angle, SHIP.SIZE)
              vel == <<facing[1] + ship'.vel[1], facing[2] + ship'.vel[2]>>
          IN  /\ Len(bullets') >= 1
              /\ b.vel = vel
              /\ b.lifespan = BULLET.LIFESPAN - delta
              /\ b.pos = Advanced(<<ship'.pos[1] + nose[1], ship'.pos[2] + nose[2]>>,
                                  vel, delta, BULLET.SIZE)]_vars
  /\ [][\A i \in 1..Len(bullets) :
          bullets[i].lifespan - (time' - time) > 0 =>
            \E j \in 1..Len(bullets') :
              /\ bullets'[j].lifespan = bullets[i].lifespan - (time' - time)
              /\ bullets'[j].vel = bullets[i].vel]_vars

\* The ship has thrust upwards and then turned to the right: the bullet it
\* has just fired goes to the right at BULLET.SPEED and upwards with the
\* ship, and an earlier bullet is still in flight.
C29_Witness ==
  /\ log.shot
  /\ ship.angle = 0
  /\ ship.vel = <<0, -90>>
  /\ Len(bullets) >= 2
  /\ bullets[Len(bullets)].vel = <<BULLET.SPEED, -90>>
  /\ bullets[Len(bullets)].lifespan = BULLET.LIFESPAN - 450

\* The point lies on one of the four edges of the arena.
OnEdge(p) ==
  \/ p[1] \in {0, GAME.WIDTH} /\ 0 <= p[2] /\ p[2] <= GAME.HEIGHT
  \/ p[2] \in {0, GAME.HEIGHT} /\ 0 <= p[1] /\ p[1] <= GAME.WIDTH

\* C30: every asteroid a call of spawnWave adds lies on an edge of the
\* arena, at a distance of at least minDist from the ship as it is at the
\* call, which is more than the radii of a large asteroid and of the ship
\* together.
C30_SpawnClearance ==
  [][Len(calls') > Len(calls) =>
       /\ ship' = ship
       /\ Len(asteroids') = Len(asteroids) + GAME.INITIAL_ASTEROIDS + (wave - 1)
       /\ \A i \in (Len(asteroids) + 1)..Len(asteroids') :
            LET p == asteroids'[i].pos
            IN  /\ asteroids'[i].size = "LARGE"
                /\ OnEdge(p)
                /\ Mag2Of(p[1] - ship.pos[1], p[2] - ship.pos[2]) >= minDist * minDist
                /\ minDist > ASTEROID.LARGE.RADIUS + SHIP.SIZE]_vars

\* The ship has flown to 138 below the top edge; the first point picked for
\* the wave, the middle of the top edge, was too close and the first
\* asteroid has been placed at the second, the middle of the right edge.
C30_Witness ==
  /\ ship.pos = <<400, 138>>
  /\ Len(calls) = 1
  /\ calls[1][1] = [e |-> 0, r |-> 500]
  /\ calls[1][2] = [e |-> 750, r |-> 500]
  /\ Len(asteroids) = 2 * GAME.INITIAL_ASTEROIDS
  /\ asteroids[GAME.INITIAL_ASTEROIDS + 1].pos = <<800, 300>>

\* C31: after create() and after every frame there is at least one live
\* asteroid: a frame whose bullets destroy the last asteroid spawns the next
\* wave before it ends.
C31_NeverEmpty ==
  /\ [](Len(asteroids) > 0)
  /\ [][(time' # time /\ Len(asteroids) + KillGrowth(log'.kills) = 0) =>
          /\ log'.spawned > 0
          /\ Len(asteroids') = log'.spawned]_vars

\* A frame has destroyed the last asteroid, a small one, and ended with the
\* asteroids of the next wave.
C31_Witness ==
  /\ log.kills # <<>>
  /\ log.kills[Len(log.kills)].size = "SMALL"
  /\ log.liveAtWaveCheck = 0
  /\ Len(asteroids) = GAME.INITIAL_ASTEROIDS + 1

\* The number of large asteroids of the waves 1..w together.
RECURSIVE LargesThrough(_)
LargesThrough(w) ==
  IF w < 1 THEN 0 ELSE GAME.INITIAL_ASTEROIDS + (w - 1) + LargesThrough(w - 1)

\* C32: a frame that increments the wave from w to w + 1 ends with a score
\* of 520 for each large asteroid of the waves 1..w, the points of the
\* large asteroid, its two medium and its four small descendants.
C32_ScoreAtWave ==
  [][wave' = wave + 1 =>
       /\ score' = 520 * LargesThrough(wave)
       /\ 520 = SCORE.LARGE + 2 * SCORE.MEDIUM + 4 * SCORE.SMALL]_vars

\* The wave has just been incremented to 2 with the 28 asteroids of wave 1
\* scored, the last of them in this frame.
C32_Witness ==
  /\ wave = 2
  /\ log.spawned > 0
  /\ score = 2080
  /\ KillPoints(log.kills) > 0

\* The weights of the live asteroids together: a large one 4, a medium one
\* 2, a small one 1.
RECURSIVE Weight(_)
Weight(list) ==
  IF list = <<>> THEN 0
  ELSE (CASE Head(list).size = "LARGE" -> 4
          [] Head(list).size = "MEDIUM" -> 2
          [] Head(list).size = "SMALL" -> 1) + Weight(Tail(list))

\* C33: the weights of the live asteroids never add up to more than 4 for
\* each large asteroid of the current wave, and so there are never more
\* live asteroids than that.
C33_WeightBound ==
  /\ Weight(asteroids) <= 4 * (GAME.INITIAL_ASTEROIDS + wave - 1)
  /\ Len(asteroids) <= 4 * (GAME.INITIAL_ASTEROIDS + wave - 1)

\* Every asteroid of wave 1 has been split down to its four small ones, and
\* none of these destroyed: the bound is reached.
C33_Witness ==
  /\ wave = 1
  /\ Len(asteroids) = 4 * GAME.INITIAL_ASTEROIDS
  /\ killed = [LARGE |-> GAME.INITIAL_ASTEROIDS, MEDIUM |-> 2 * GAME.INITIAL_ASTEROIDS,
               SMALL |-> 0]

\* C34: in every frame as many asteroids are destroyed as bullets are
\* consumed by the collision pass, each by a bullet of its own, and the
\* score grows by the points of each destroyed asteroid once; every
\* destroyed asteroid has left the list, so that no second bullet scores it.
C34_KillsMatchBullets ==
  [][time' # time =>
       LET k == log'.kills
       IN  /\ Len(k) = log'.passBullets - Len(bullets')
           /\ \A i, j \in 1..Len(k) : i # j => k[i].bullet # k[j].bullet
           /\ score' - score = KillPoints(k)
           /\ (killed'.LARGE + killed'.MEDIUM + killed'.SMALL)
                - (killed.LARGE + killed.MEDIUM + killed.SMALL) = Len(k)
           /\ Len(asteroids') - log'.spawned = Len(asteroids) + KillGrowth(k)]_vars

\* Three bullets were live in one collision pass; two of them destroyed an
\* asteroid each, the first of which overlapped two asteroids.
C34_Witness ==
  /\ log.passBullets = 3
  /\ Len(log.kills) = 2
  /\ log.kills[1].overlaps = 2
  /\ Len(bullets) = 1

\* C35: between one call of onShipHit and the next of the same session the
\* clock advances by at least the delay of the respawn and the duration of
\* the invincibility together.
C35_HitSpacing ==
  \A i \in 2..Len(calls) :
    calls[i] - calls[i - 1] >= RESPAWN_DELAY + SHIP.INVINCIBILITY

\* The ship has lost its three lives, each as soon as it could be hit
\* again: 3000 ms after the last.
C35_Witness ==
  /\ Len(calls) = 3
  /\ calls[2] - calls[1] = 3000
  /\ calls[3] - calls[2] = 3000
  /\ scene = "GameOver"

\* C36: after create() and after every frame there are at most
\* BULLET.LIFESPAN / SHIP.FIRE_RATE = 4 live bullets.
C36_BulletCap ==
  /\ Len(bullets) <= BULLET.LIFESPAN \div SHIP.FIRE_RATE
  /\ BULLET.LIFESPAN \div SHIP.FIRE_RATE = 4

\* Four bullets are live after the frame of the fifth shot: the fire key
\* was held, the bullets were fired 250 ms apart, and the first has expired.
C36_Witness ==
  /\ Len(bullets) = 4
  /\ log.shot
  /\ log.expired = 1
  /\ shots = 5

\* C37: a respawn deadline is pending exactly while the respawning flag is
\* set, never more than one, and none once the scene is no longer Game.
C37_RespawnPending ==
  /\ isRespawning <=> PendingOf("respawn") # {}
  /\ Cardinality(PendingOf("respawn")) <= 1
  /\ scene # "Game" => PendingOf("respawn") = {}

\* The session has reached GameOver after two respawns, with no respawn
\* deadline pending and the flag cleared.
C37_Witness ==
  /\ scene = "GameOver"
  /\ phases = ThreeHits
  /\ ~isRespawning
  /\ PendingOf("respawn") = {}
  /\ "respawn" \notin {log.fired[i] : i \in 1..Len(log.fired)}

\* C38: a frame in which onShipHit is called, the one that ends the session
\* included, finds a live asteroid at its wave check and neither increments
\* the wave nor spawns.
C38_HitKeepsWave ==
  [][(time' # time /\ log'.shipHit) =>
       /\ lives' = lives - 1
       /\ log'.liveAtWaveCheck > 0
       /\ log'.spawned = 0
       /\ wave' = wave
       /\ Len(asteroids') > 0]_vars

\* The ship has been hit by the only asteroid left, in the frame in which a
\* bullet destroyed the last but one; the wave is still the first.
C38_Witness ==
  /\ log.shipHit
  /\ log.kills # <<>>
  /\ log.liveAtWaveCheck = 1
  /\ Len(asteroids) = 1
  /\ wave = 1

\* The point lies within r of the arena, on both axes.
InBox(p, r) ==
  /\ -r <= p[1] /\ p[1] <= GAME.WIDTH + r
  /\ -r <= p[2] /\ p[2] <= GAME.HEIGHT + r

\* An update of the entity has been called.
Updated(entity) == \E i \in 1..Len(calls) : calls[i] = entity

\* C39: once its update has been called (for a bullet: and has returned
\* true), a ship, an asteroid or a bullet lies within its own collision
\* radius of the arena on both axes, wherever it was constructed.
C39_InArena ==
  /\ Updated("ship") => InBox(ship.pos, SHIP.SIZE)
  /\ Updated("asteroid") =>
       InBox(asteroids[1].pos, SIZE_CONFIG[asteroids[1].size].RADIUS)
  /\ (Updated("bullet") /\ bullets # <<>>) => InBox(bullets[1].pos, BULLET.SIZE)

\* The three entities were constructed far outside the arena on both axes
\* and each has been updated once; they lie at the far edges of their boxes.
C39_Witness ==
  /\ Updated("ship") /\ Updated("asteroid") /\ Updated("bullet")
  /\ ship.pos = <<-SHIP.SIZE, -SHIP.SIZE>>
  /\ bullets # <<>>
  /\ bullets[1].pos = <<-BULLET.SIZE, -BULLET.SIZE>>
  /\ asteroids[1].size = "LARGE"
  /\ asteroids[1].pos = <<-ASTEROID.LARGE.RADIUS, -ASTEROID.LARGE.RADIUS>>

\* C40: wherever in its box the ship is, some point of the edges that the
\* loop of getSpawnPosition can pick is at least minDist away from it, and
\* under a fair random choice spawnWave places all the asteroids of its wave.
C40_SpawnTerminates ==
  /\ [](\E draw \in LoopDraws : ~TooClose(Game, EdgePoint(draw)))
  /\ <>(Len(asteroids) = GAME.INITIAL_ASTEROIDS + (wave - 1))

\* The ship is at the top-left corner of the arena; the corner was picked
\* and turned down, and spawnWave has gone on to place its asteroids, all
\* of them at the bottom end of the right edge.
C40_Witness ==
  /\ ship.pos = <<0, 0>>
  /\ Len(asteroids) = GAME.INITIAL_ASTEROIDS
  /\ \A i \in 1..Len(asteroids) : asteroids[i].pos = <<800, 599>>
  /\ calls = << <<0, 0>> >>

====
